---- MODULE Spec2Model ----
(***************************************************************************)
(* Verification model of the PACS viewer front end:                        *)
(*   - MultiViewLayout      (src/src/components/MultiViewLayout.js)        *)
(*   - AdvancedStudyViewer  (src/src/components/AdvancedStudyViewer.js)    *)
(*   - VolumeRenderer3D     (src/src/components/VolumeRenderer3D.js)       *)
(*   - MPRViewer            (src/unnamed/part_004)                         *)
(*                                                                         *)
(* React state is modelled as the committed state; an event handler reads  *)
(* the committed state (the closure of the latest render), while the       *)
(* continuation of an await and a setInterval callback keep the values     *)
(* their closure captured when the handler was created.                    *)
(***************************************************************************)
EXTENDS Integers, Sequences, FiniteSets, TLC

\* ------------------------------------------------------------------ bounds
MaxFetched == 3     \* instances of a fetched list that is sorted
MaxStack == 3       \* instances of the longest series
MaxPanes == 2       \* only layouts with at most this many panes are offered
MaxOps == 2         \* asynchronous operations in flight at the same time
MaxDepth == 6       \* instances of the largest catalog a volume is built from
MaxFailing == 2     \* instances of a catalog that fail to load
MaxSide == 2        \* columns and rows of the largest image of a volume

\* ---------------------------------------------------------- study content
SeriesUids == {"A", "B", "C"}

\* series C holds a single instance
SeriesLen(s) == IF s = "A" THEN MaxStack ELSE IF s = "B" THEN MaxStack - 1 ELSE 1

\* an instance reference: series and instance_number
NoImage == [s |-> "", n |-> 0]

AllInstances == {[s |-> s, n |-> n] : s \in SeriesUids, n \in 1..MaxStack}
                  \cap {i \in [s : SeriesUids, n : 1..MaxStack] : i.n <= SeriesLen(i.s)}

\* what the server returns for a series (pacsAPI.getSeriesInstances): the
\* instances in descending instance_number order
getSeriesInstances(s) == [k \in 1..SeriesLen(s) |-> [s |-> s, n |-> SeriesLen(s) + 1 - k]]

\* the decimal digits of a natural number, as String(v) writes them
RECURSIVE DecimalDigits(_)
DecimalDigits(v) == IF v < 10 THEN <<v>> ELSE Append(DecimalDigits(v \div 10), v % 10)

\* the number a run of decimal digits denotes
RECURSIVE ParseDigits(_)
ParseDigits(ds) ==
  IF ds = <<>> THEN 0 ELSE ParseDigits(SubSeq(ds, 1, Len(ds) - 1)) * 10 + ds[Len(ds)]

\* parseInt of an integer instance_number: the value is written as a string,
\* sign first, and its digits are read back
parseInt(v) ==
  IF v < 0 THEN 0 - ParseDigits(DecimalDigits(0 - v)) ELSE ParseDigits(DecimalDigits(v))

\* an insertion that puts an element before the elements of equal number
RECURSIVE InsertBeforeEqual(_, _)
InsertBeforeEqual(sorted, x) ==
  IF sorted = <<>> THEN <<x>>
  ELSE IF parseInt(x.n) - parseInt(sorted[Len(sorted)].n) <= 0
       THEN Append(InsertBeforeEqual(SubSeq(sorted, 1, Len(sorted) - 1), x), sorted[Len(sorted)])
       ELSE Append(sorted, x)

\* Array.prototype.sort is stable: an element moves before those the comparator
\* ranks after it, and stays behind those it ranks equal
RECURSIVE InsertByNumber(_, _)
InsertByNumber(sorted, x) ==
  IF sorted = <<>> THEN <<x>>
  ELSE IF parseInt(x.n) - parseInt(sorted[Len(sorted)].n) < 0
       THEN Append(InsertByNumber(SubSeq(sorted, 1, Len(sorted) - 1), x), sorted[Len(sorted)])
       ELSE Append(sorted, x)

\* response.data.sort((a, b) => parseInt(a.instance_number) - parseInt(b.instance_number))
RECURSIVE SortByInstanceNumber(_)
SortByInstanceNumber(seq) ==
  IF seq = <<>> THEN <<>>
  ELSE InsertByNumber(SortByInstanceNumber(SubSeq(seq, 1, Len(seq) - 1)), seq[Len(seq)])

loadSeriesInstances(s) == SortByInstanceNumber(getSeriesInstances(s))

\* ------------------------------------------------------- JavaScript arrays
\* arrays are sequences read with 0-based indices; an index past the end reads
\* `undefined`, and a write past the end grows the array leaving holes
EmptyViewport == [kind |-> "vp", seriesData |-> "", instances |-> <<>>,
                  currentIndex |-> 0, imageInfo |-> NoImage]
Hole == [kind |-> "hole", seriesData |-> "", instances |-> <<>>,
         currentIndex |-> 0, imageInfo |-> NoImage]

At(arr, i) == IF i + 1 \in DOMAIN arr THEN arr[i + 1] ELSE Hole
AtB(arr, i) == IF i + 1 \in DOMAIN arr THEN arr[i + 1] ELSE FALSE
AtN(arr, i) == IF i + 1 \in DOMAIN arr THEN arr[i + 1] ELSE 0

SetAtFill(arr, i, v, fill) ==
  [k \in 1..(IF i + 1 > Len(arr) THEN i + 1 ELSE Len(arr)) |->
     IF k = i + 1 THEN v ELSE IF k \in DOMAIN arr THEN arr[k] ELSE fill]
SetAt(arr, i, v) == SetAtFill(arr, i, v, Hole)
SetAtB(arr, i, v) == SetAtFill(arr, i, v, FALSE)

Fill(n, v) == [k \in 1..n |-> v]

\* !viewport || !viewport.instances || viewport.instances.length === 0, negated
HasInstances(vp) == vp.kind = "vp" /\ Len(vp.instances) > 0

\* { ...obj, imageInfo: info } : spreading undefined gives an object with only imageInfo
SpreadImageInfo(vp, info) ==
  IF vp.kind = "vp" THEN [vp EXCEPT !.imageInfo = info]
  ELSE [Hole EXCEPT !.kind = "partial", !.imageInfo = info]

Min(a, b) == IF a < b THEN a ELSE b

\* ------------------------------------------------------------------ state
VARIABLES
  route,               \* which component the router mounted
  unreadable,          \* instances whose cornerstone.loadImage rejects
  budget,              \* user events and timer ticks the scenario allows, per kind
  events,              \* user events and timer ticks so far, per kind
  lastOp,              \* the last user event or timer tick, and the image it asked for
  \* --- MultiViewLayout
  loading, error, layout, viewports, viewportsReady, imageLoadingStates,
  activeViewport, syncEnabled, cineMode, cineIntervalRef, isInitializing,
  viewportElements,
  initPc, initIdx, initCount,   \* position of the running initializeViewports
  dom, nextElem,                \* mounted canvas element of each pane
  csShown,                      \* cornerstone: image shown in each enabled element
  timers, nextTimer,            \* live setInterval timers
  ops,                          \* suspended async handlers (awaits in flight)
  \* --- AdvancedStudyViewer (loading, error, cineMode, cineIntervalRef, timers, ops
  \*     and cornerstone are the same-named state of whichever component is mounted)
  instances, selectedSeries, currentIndex, imageLoading, imageInfo, isElementEnabled,
  viewerRef, elementRef, stackRef,
  keyCineMode,                  \* cineMode as captured by the keydown listener
  \* --- VolumeRenderer3D and MPRViewer: the running loadVolumeData
  instanceList,                 \* the instances prop
  failing,                      \* instances whose cornerstone.loadImage rejects
  imageSize,                    \* columns and rows of the images
  sampleCount,                  \* pixelData.length of each instance's image
  fill,                         \* the samples of the images: "ramp" or "flat"
  pc,                           \* position of loadVolumeData
  sortedInstances, width, height, depth,
  volumeData,                   \* the Uint16Array of VolumeRenderer3D
  loadedCount,
  batchI,                       \* i of the batch loop
  pending,                      \* batchIdx of the loads of the batch not yet settled
  batchResults, pixelDataArray, \* MPRViewer
  volumeRef,                    \* VolumeRenderer3D: volumeRef.current
  mprVolumeData, sliceIndex,    \* MPRViewer: the volumeData and sliceIndex state
  sliceResult                   \* MPRViewer: the last getSlice call and what it returned

mvVars == <<loading, error, layout, viewports, viewportsReady, imageLoadingStates,
            activeViewport, syncEnabled, cineMode, cineIntervalRef, isInitializing,
            viewportElements, initPc, initIdx, initCount, dom, nextElem,
            csShown, timers, nextTimer, ops>>

svVars == <<instances, selectedSeries, currentIndex, imageLoading, imageInfo,
            isElementEnabled, viewerRef, elementRef, stackRef, keyCineMode>>

volVars == <<instanceList, failing, imageSize, sampleCount, fill, pc, sortedInstances,
             width, height, depth, volumeData, loadedCount, batchI, pending, batchResults,
             pixelDataArray, volumeRef, mprVolumeData, sliceIndex, sliceResult>>

viewerVars == <<route, unreadable, budget, events, lastOp, mvVars, svVars>>

vars == <<viewerVars, volVars>>

\* ------------------------------------------------------- MultiViewLayout
LayoutNames == {"1x1", "1x2", "2x2", "2x3"}

getViewportCount(layoutType) ==
  CASE layoutType = "1x1" -> 1
    [] layoutType = "1x2" -> 2
    [] layoutType = "2x2" -> 4
    [] layoutType = "2x3" -> 6
    [] OTHER -> 1

OfferedLayouts == {l \in LayoutNames : getViewportCount(l) <= MaxPanes}

Panes == 0..(MaxPanes - 1)

NoOp == [kind |-> "none", vp |-> 0, series |-> "", insts |-> <<>>, idx |-> 0, at |-> 0,
         elem |-> 0, inst |-> NoImage, sync |-> FALSE, cvps |-> <<>>, cready |-> <<>>]

FreeSlots == {k \in 1..MaxOps : ops[k].kind = "none"}
FreeSlot == CHOOSE k \in FreeSlots : \A j \in FreeSlots : k <= j

Did(name, vp, arg, want) == lastOp' = [name |-> name, vp |-> vp, arg |-> arg, want |-> want]

\* a user event or timer tick of kind k is taken while the scenario's budget allows
Spend(k) == /\ events[k] < budget[k]
            /\ events' = [events EXCEPT ![k] = @ + 1]

\* cornerstone.loadImage(imageId) of an instance may reject; an instance that was
\* rejected once stays unreadable
LoadOutcomes(inst) ==
  IF inst \in unreadable THEN {FALSE}
  ELSE IF Cardinality(unreadable) < budget.fail THEN {TRUE, FALSE} ELSE {TRUE}

\* the request for the instance list of a series, settled the same way
SeriesList(seriesUid) == [s |-> seriesUid, n |-> 0]

Settle(inst, ok) == unreadable' = IF ok THEN unreadable ELSE unreadable \cup {inst}

\* ---- the DOM and cornerstone
\* panes 0..count-1 are rendered; a pane keeps its canvas element while it stays
\* mounted, a pane that is mounted again gets a new element
NewPanes(count) == {i \in Panes : i < count /\ dom[i] = 0}

RenderDom(count) ==
  [i \in Panes |->
     IF i >= count THEN 0
     ELSE IF dom[i] # 0 THEN dom[i]
     ELSE nextElem + Cardinality({j \in NewPanes(count) : j < i})]

\* cornerstone.enable(element) / cornerstone.disable(element)
csEnabled == DOMAIN csShown
csEnable(shown, e) == [x \in (DOMAIN shown) \cup {e} |-> IF x = e THEN NoImage ELSE shown[x]]
csDisableAll(shown, elems) ==
  [x \in (DOMAIN shown) \ {elems[k] : k \in DOMAIN elems} |-> shown[x]]
\* cornerstone.displayImage(element, image): throws on an element that is not enabled
csDisplay(shown, e, img) == [shown EXCEPT ![e] = img]

\* the image visible in pane vp
Displayed(vp) == IF dom[vp] \in csEnabled THEN csShown[dom[vp]] ELSE NoImage

\* ---- initializeViewports (lines 128-199)
\* the synchronous part, up to the first await; base is the viewports state the
\* functional update receives
InitKeepViewports(base, count) ==
  [k \in 1..count |-> IF At(base, k - 1).kind # "hole" THEN At(base, k - 1) ELSE EmptyViewport]

initializeViewportsStart(base, count) ==
  IF isInitializing
  THEN /\ viewports' = base
       /\ viewportsReady' = Fill(count, FALSE)
       /\ UNCHANGED <<isInitializing, csShown, viewportElements, initPc, initIdx, initCount>>
  ELSE /\ isInitializing' = TRUE
       /\ csShown' = csDisableAll(csShown, viewportElements)
       /\ viewportElements' = Fill(count, 0)
       /\ viewportsReady' = Fill(count, FALSE)
       /\ viewports' = InitKeepViewports(base, count)
       /\ initPc' = "run"
       /\ initIdx' = 0
       /\ initCount' = count

\* the next pane at or after initIdx whose ref is mounted
InitNextIdx == {i \in Panes : i >= initIdx /\ i < initCount /\ dom[i] # 0}

\* a fresh array in which pane idx alone is ready
markOnlyReady(ready, idx) ==
  [k \in 1..(IF idx + 1 > Len(ready) THEN idx + 1 ELSE Len(ready)) |-> k = idx + 1]

\* the functional update of lines 182-186: a copy with newReady[idx] = true
markReady(ready, idx) == SetAtB(ready, idx, TRUE)

\* one iteration of the enabling loop (lines 173-196), or its end (line 198)
initializeViewportsStep ==
  /\ route = "multi"
  /\ initPc = "run"
  /\ IF InitNextIdx # {}
     THEN LET idx == CHOOSE i \in InitNextIdx : \A j \in InitNextIdx : i <= j IN
          /\ csShown' = csEnable(csShown, dom[idx])
          /\ viewportElements' = SetAtFill(viewportElements, idx, dom[idx], 0)
          /\ viewportsReady' = markReady(viewportsReady, idx)
          /\ initIdx' = idx + 1
          /\ UNCHANGED lastOp
          /\ UNCHANGED <<isInitializing, initPc>>
     ELSE /\ isInitializing' = FALSE
          /\ initPc' = "idle"
          /\ UNCHANGED lastOp
          /\ UNCHANGED <<csShown, viewportElements, viewportsReady, initIdx>>
  /\ UNCHANGED <<route, unreadable, budget, events, loading, error, layout, viewports,
                 imageLoadingStates, activeViewport, syncEnabled, cineMode,
                 cineIntervalRef, initCount, dom, nextElem, timers, nextTimer, ops, svVars, volVars>>

\* ---- loadStudyData (lines 80-116) and the layout effect (lines 73-78)
loadStudyData ==
  /\ route = "multi"
  /\ loading
  /\ \E ok \in BOOLEAN :
       IF ok
       THEN LET count == getViewportCount(layout) IN
            /\ imageLoadingStates' = Fill(count, FALSE)
            /\ error' = ""
            /\ dom' = RenderDom(count)
            /\ nextElem' = nextElem + Cardinality(NewPanes(count))
            /\ initializeViewportsStart(Fill(count, EmptyViewport), count)
            /\ UNCHANGED lastOp
       ELSE /\ error' = "study"
            /\ UNCHANGED lastOp
            /\ UNCHANGED <<imageLoadingStates, dom, nextElem, viewports, viewportsReady,
                           isInitializing, csShown, viewportElements, initPc, initIdx,
                           initCount>>
  /\ loading' = FALSE
  /\ UNCHANGED <<route, unreadable, budget, events, layout, activeViewport, syncEnabled,
                 cineMode, cineIntervalRef, timers, nextTimer, ops, svVars, volVars>>

\* the toolbar and the panes are rendered
Rendered == route = "multi" /\ ~loading /\ error = ""

\* a layout change that keeps the panes it already has
keepViewports(count) ==
  [k \in 1..count |-> IF At(viewports, k - 1).kind = "vp" THEN At(viewports, k - 1)
                                                          ELSE EmptyViewport]

\* lines 311-322
createEmptyViewports(count) == Fill(count, EmptyViewport)

\* ---- handleLayoutChange (lines 308-327), with the layout effect it triggers
handleLayoutChange(newLayout) ==
  /\ Rendered
  /\ Spend("layout")
  /\ LET count == getViewportCount(newLayout) IN
     /\ layout' = newLayout
     /\ imageLoadingStates' = Fill(count, FALSE)
     /\ dom' = RenderDom(count)
     /\ nextElem' = nextElem + Cardinality(NewPanes(count))
     /\ IF newLayout # layout
        THEN initializeViewportsStart(createEmptyViewports(count), count)
        ELSE /\ viewports' = createEmptyViewports(count)
             /\ viewportsReady' = Fill(count, FALSE)
             /\ UNCHANGED <<isInitializing, csShown, viewportElements, initPc, initIdx,
                            initCount>>
     /\ Did("layout", count, 0, NoImage)
  /\ UNCHANGED <<route, unreadable, budget, loading, error, activeViewport, syncEnabled,
                 cineMode, cineIntervalRef, timers, nextTimer, ops, svVars, volVars>>

\* ---- suspended handlers
MkOp(kind, vp, series, insts, idx, at, elem, inst, sync, cvps, cready) ==
  [kind |-> kind, vp |-> vp, series |-> series, insts |-> insts, idx |-> idx, at |-> at,
   elem |-> elem, inst |-> inst, sync |-> sync, cvps |-> cvps, cready |-> cready]

\* a handler without the finally block
SelectNoFinally(vp) == UNCHANGED imageLoadingStates

\* the finally block of handleSeriesSelect (lines 441-447)
SelectFinally(vp) == imageLoadingStates' = SetAtB(imageLoadingStates, vp, FALSE)

UnchangedInit == UNCHANGED <<isInitializing, initPc, initIdx, initCount>>
UnchangedCine == UNCHANGED <<cineMode, cineIntervalRef, timers, nextTimer>>
UnchangedDom == UNCHANGED <<dom, nextElem>>
UnchangedFlags == UNCHANGED <<route, unreadable, budget, loading, error, layout, svVars, volVars>>
UnchangedFlagsLoad == UNCHANGED <<route, budget, loading, error, layout, svVars, volVars>>

\* ---- handleSeriesSelect (lines 343-448)
\* the series <select> of a pane is disabled while the pane is not ready or is
\* loading (line 1005); the handler runs up to the await of line 363
handleSeriesSelect(viewportIndex, seriesUid) ==
  /\ Rendered
  /\ viewportIndex < getViewportCount(layout)
  /\ AtB(viewportsReady, viewportIndex)
  /\ ~AtB(imageLoadingStates, viewportIndex)
  /\ FreeSlots # {}
  /\ Spend("select")
  /\ imageLoadingStates' = SetAtB(imageLoadingStates, viewportIndex, TRUE)
  /\ ops' = [ops EXCEPT ![FreeSlot] =
               MkOp("selFetch", viewportIndex, seriesUid, <<>>, 0, 0, 0, NoImage, FALSE, <<>>, <<>>)]
  /\ Did("select", viewportIndex, 0, loadSeriesInstances(seriesUid)[1])
  /\ UNCHANGED <<viewports, viewportsReady, activeViewport, syncEnabled,
                 viewportElements, csShown>>
  /\ UnchangedInit /\ UnchangedCine /\ UnchangedDom /\ UnchangedFlags

\* a replacement that keeps the index the viewport had
keepIndex(prev) == prev

\* currentIndex: 0 of the new viewport record (line 372), setCurrentIndex(0)
\* (AdvancedStudyViewer line 505); prev is the index before the replacement
resetIndex(prev) == 0

\* the instance list arrives (lines 363-378) or the fetch fails (lines 438-447)
selectFetched(k) ==
  /\ route = "multi"
  /\ ops[k].kind = "selFetch"
  /\ LET op == ops[k] IN
     \E ok \in LoadOutcomes(SeriesList(op.series)) :
       /\ Settle(SeriesList(op.series), ok)
       /\ IF ok
          THEN LET insts == loadSeriesInstances(op.series) IN
               /\ viewports' = SetAt(viewports, op.vp,
                    [kind |-> "vp", seriesData |-> op.series, instances |-> insts,
                     currentIndex |-> resetIndex(At(viewports, op.vp).currentIndex),
                     imageInfo |-> NoImage])
               /\ ops' = [ops EXCEPT ![k] = [op EXCEPT !.kind = "selWait", !.insts = insts]]
               /\ UNCHANGED lastOp
               /\ UNCHANGED imageLoadingStates
          ELSE /\ SelectFinally(op.vp)
               /\ ops' = [ops EXCEPT ![k] = NoOp]
               /\ UNCHANGED lastOp
               /\ UNCHANGED viewports
  /\ UNCHANGED <<events, viewportsReady, activeViewport, syncEnabled, viewportElements, csShown>>
  /\ UnchangedInit /\ UnchangedCine /\ UnchangedDom /\ UnchangedFlagsLoad

\* after the 100 ms wait (lines 378-386): start loading the first image
selectWaited(k) ==
  /\ route = "multi"
  /\ ops[k].kind = "selWait"
  /\ LET op == ops[k]
         element == AtN(viewportElements, op.vp) IN
     IF element # 0 /\ Len(op.insts) > 0
     THEN /\ ops' = [ops EXCEPT ![k] = [op EXCEPT !.kind = "selLoad", !.elem = element,
                                                  !.inst = op.insts[1]]]
          /\ UNCHANGED imageLoadingStates
     ELSE /\ SelectFinally(op.vp)
          /\ ops' = [ops EXCEPT ![k] = NoOp]
  /\ UNCHANGED lastOp
  /\ UNCHANGED <<events, viewports, viewportsReady, activeViewport, syncEnabled,
                 viewportElements, csShown>>
  /\ UnchangedInit /\ UnchangedCine /\ UnchangedDom /\ UnchangedFlags

\* the first image settles (lines 386-447)
selectLoaded(k) ==
  /\ route = "multi"
  /\ ops[k].kind = "selLoad"
  /\ LET op == ops[k] IN
     \E ok \in LoadOutcomes(op.inst) :
       /\ Settle(op.inst, ok)
       /\ IF ok /\ op.elem \in csEnabled
          THEN /\ csShown' = csDisplay(csShown, op.elem, op.inst)
               /\ viewports' = SetAt(viewports, op.vp,
                                     SpreadImageInfo(At(viewports, op.vp), op.inst))
          ELSE UNCHANGED <<csShown, viewports>>
       /\ SelectFinally(op.vp)
       /\ UNCHANGED lastOp
  /\ ops' = [ops EXCEPT ![k] = NoOp]
  /\ UNCHANGED <<events, viewportsReady, activeViewport, syncEnabled, viewportElements>>
  /\ UnchangedInit /\ UnchangedCine /\ UnchangedDom /\ UnchangedFlagsLoad

\* ---- syncViewports (lines 450-494)
\* the viewports the loop stops at to await a load, from index `from` on: the
\* closure's viewports and viewportsReady, the current viewportElements
SyncStops(targetIndex, source, cvps, cready, from) ==
  {idx \in 0..(Len(cvps) - 1) :
     /\ idx >= from
     /\ idx # source
     /\ HasInstances(At(cvps, idx))
     /\ Min(targetIndex, Len(At(cvps, idx).instances) - 1) # At(cvps, idx).currentIndex
     /\ AtN(viewportElements, idx) # 0
     /\ AtB(cready, idx)}

\* the suspended syncViewports call, or NoOp when the loop runs to its end
syncViewports(targetIndex, source, cvps, cready, from) ==
  LET stops == SyncStops(targetIndex, source, cvps, cready, from) IN
  IF stops = {} THEN NoOp
  ELSE LET idx == CHOOSE i \in stops : \A j \in stops : i <= j
           newIndex == Min(targetIndex, Len(At(cvps, idx).instances) - 1) IN
       MkOp("syncLoad", source, "", <<>>, targetIndex, idx, AtN(viewportElements, idx),
            At(cvps, idx).instances[newIndex + 1], FALSE, cvps, cready)

\* the viewports update of the suspended syncViewports call (lines 481-488); the
\* loop then goes on from the next index
syncLoaded(k) ==
  /\ route = "multi"
  /\ ops[k].kind = "syncLoad"
  /\ LET op == ops[k]
         viewport == At(op.cvps, op.at)
         newIndex == Min(op.idx, Len(viewport.instances) - 1) IN
     \E ok \in LoadOutcomes(op.inst) :
       /\ Settle(op.inst, ok)
       /\ IF ok /\ op.elem \in csEnabled
          THEN /\ csShown' = csDisplay(csShown, op.elem, op.inst)
               /\ viewports' = SetAt(viewports, op.at, [viewport EXCEPT !.currentIndex = newIndex])
          ELSE UNCHANGED <<csShown, viewports>>
       /\ ops' = [ops EXCEPT ![k] = syncViewports(op.idx, op.vp, op.cvps, op.cready, op.at + 1)]
       /\ UNCHANGED lastOp
  /\ UNCHANGED <<events, viewportsReady, imageLoadingStates, activeViewport, syncEnabled,
                 viewportElements>>
  /\ UnchangedInit /\ UnchangedCine /\ UnchangedDom /\ UnchangedFlagsLoad

\* ---- handleImageScroll (lines 496-563)
\* a navigation that wraps around at both ends instead of stopping
ScrollTargetWrap(viewport, direction) ==
  (viewport.currentIndex + direction) % Len(viewport.instances)

\* lines 500-504
ScrollTarget(viewport, direction) ==
  LET maxIndex == Len(viewport.instances) - 1
      newIndex == viewport.currentIndex + direction IN
  IF newIndex < 0 THEN 0 ELSE IF newIndex > maxIndex THEN maxIndex ELSE newIndex

\* the handler up to its first await, run with the closure (cvps, cready, csync)
\* on the viewports state `base`: the new viewports state and the suspended call
handleImageScrollRun(cvps, cready, csync, viewportIndex, direction, base) ==
  LET viewport == At(cvps, viewportIndex) IN
  IF ~HasInstances(viewport) THEN [vps |-> base, op |-> NoOp]
  ELSE LET newIndex == ScrollTarget(viewport, direction)
           element == AtN(viewportElements, viewportIndex) IN
       IF newIndex = viewport.currentIndex THEN [vps |-> base, op |-> NoOp]
       ELSE [vps |-> SetAt(base, viewportIndex, [viewport EXCEPT !.currentIndex = newIndex]),
             op |-> IF element # 0 /\ AtB(cready, viewportIndex)
                    THEN MkOp("scrollLoad", viewportIndex, "", <<>>, newIndex, 0, element,
                              viewport.instances[newIndex + 1], csync, cvps, cready)
                    ELSE IF csync THEN syncViewports(newIndex, viewportIndex, cvps, cready, 0)
                    ELSE NoOp]

PutOp(op) == IF op.kind = "none" THEN ops ELSE [ops EXCEPT ![FreeSlot] = op]

\* a previous/next button of a pane (lines 1017-1039) or an arrow key on the
\* active pane (lines 738-752)
handleImageScroll(viewportIndex, direction) ==
  /\ Rendered
  /\ viewportIndex < getViewportCount(layout)
  /\ FreeSlots # {}
  /\ Spend("scroll")
  /\ LET r == handleImageScrollRun(viewports, viewportsReady, syncEnabled,
                                   viewportIndex, direction, viewports) IN
     /\ viewports' = r.vps
     /\ ops' = PutOp(r.op)
  /\ Did("scroll", viewportIndex, direction,
         LET r == handleImageScrollRun(viewports, viewportsReady, syncEnabled,
                                       viewportIndex, direction, viewports) IN
         IF r.op.kind = "scrollLoad" THEN r.op.inst ELSE NoImage)
  /\ UNCHANGED <<viewportsReady, imageLoadingStates, activeViewport, syncEnabled,
                 viewportElements, csShown>>
  /\ UnchangedInit /\ UnchangedCine /\ UnchangedDom /\ UnchangedFlags

\* the image of a navigation settles (lines 525-562)
scrollLoaded(k) ==
  /\ route = "multi"
  /\ ops[k].kind = "scrollLoad"
  /\ LET op == ops[k] IN
     \E ok \in LoadOutcomes(op.inst) :
       /\ Settle(op.inst, ok)
       /\ IF ok /\ op.elem \in csEnabled
          THEN csShown' = csDisplay(csShown, op.elem, op.inst)
          ELSE UNCHANGED csShown
       /\ ops' = [ops EXCEPT ![k] = IF op.sync
                                    THEN syncViewports(op.idx, op.vp, op.cvps, op.cready, 0)
                                    ELSE NoOp]
       /\ UNCHANGED lastOp
  /\ UNCHANGED <<events, viewports, viewportsReady, imageLoadingStates, activeViewport,
                 syncEnabled, viewportElements>>
  /\ UnchangedInit /\ UnchangedCine /\ UnchangedDom /\ UnchangedFlagsLoad

\* ---- the sync button (line 903) and the click on a pane (line 993)
toggleSync ==
  /\ Rendered
  /\ Spend("sync")
  /\ syncEnabled' = ~syncEnabled
  /\ Did("sync", 0, 0, NoImage)
  /\ UNCHANGED <<viewports, viewportsReady, imageLoadingStates, activeViewport,
                 viewportElements, csShown, ops>>
  /\ UnchangedInit /\ UnchangedCine /\ UnchangedDom /\ UnchangedFlags

setActiveViewport(idx) ==
  /\ Rendered
  /\ idx < getViewportCount(layout)
  /\ idx # activeViewport
  /\ Spend("active")
  /\ activeViewport' = idx
  /\ Did("active", idx, 0, NoImage)
  /\ UNCHANGED <<viewports, viewportsReady, imageLoadingStates, syncEnabled,
                 viewportElements, csShown, ops>>
  /\ UnchangedInit /\ UnchangedCine /\ UnchangedDom /\ UnchangedFlags

\* ---- toggleCineMode (lines 656-705)
\* a clearInterval that cancels nothing
KeepInterval(ts, id) == ts

\* clearInterval(cineIntervalRef.current)
ClearInterval(ts, id) == {t \in ts : t.id # id}

\* a stop that flips cineMode instead of clearing it
stopCineFlips(mode) == ~mode

\* setCineMode(false) of the stop branch (MultiViewLayout line 662,
\* AdvancedStudyViewer line 836); mode is the committed cineMode
stopCine(mode) == FALSE

\* a start condition that accepts every stack
canStartCineAlways(stack) == TRUE

\* instances.length > 1 (MultiViewLayout line 667, AdvancedStudyViewer line 838)
canStartCine(stack) == Len(stack) > 1

toggleCineMode ==
  /\ route = "multi"
  /\ Spend("cine")
  /\ IF cineMode
     THEN /\ timers' = ClearInterval(timers, cineIntervalRef)
          /\ cineIntervalRef' = 0
          /\ cineMode' = stopCine(cineMode)
          /\ UNCHANGED nextTimer
     ELSE LET viewport == At(viewports, activeViewport) IN
          IF viewport.kind = "vp" /\ canStartCine(viewport.instances)
          THEN /\ cineMode' = TRUE
               /\ timers' = timers \cup {[id |-> nextTimer, av |-> activeViewport,
                                           cvps |-> viewports, cready |-> viewportsReady,
                                           csync |-> syncEnabled]}
               /\ cineIntervalRef' = nextTimer
               /\ nextTimer' = nextTimer + 1
          ELSE UNCHANGED <<cineMode, timers, cineIntervalRef, nextTimer>>
  /\ Did("cine", activeViewport, 0, NoImage)
  /\ UNCHANGED <<viewports, viewportsReady, imageLoadingStates, activeViewport, syncEnabled,
                 viewportElements, csShown, ops>>
  /\ UnchangedInit /\ UnchangedDom /\ UnchangedFlags

\* a tick that ends the session and leaves its timer running
tickKeepsInterval(ts, id) == ts

\* lines 675-678 of the tick: clearInterval(cineIntervalRef.current)
tickClearInterval(ts, id) == ClearInterval(ts, id)

\* one firing of a live interval timer (lines 670-699). The updater passed to
\* setViewports calls the handleImageScroll the timer captured, which queues its
\* own setViewports: React applies that update after the updater's result when
\* it runs the updater while rendering, and before it when it ran the updater
\* eagerly at the setViewports call
cineTick(t) ==
  /\ route = "multi"
  /\ t \in timers
  /\ Spend("tick")
  /\ FreeSlots # {}
  /\ LET currentViewport == At(viewports, t.av) IN
     IF ~HasInstances(currentViewport)
     THEN /\ cineMode' = FALSE
          /\ timers' = tickClearInterval(timers, cineIntervalRef)
          /\ cineIntervalRef' = 0
          /\ UNCHANGED <<viewports, ops>>
     ELSE LET nextIndex == IF currentViewport.currentIndex + 1 >= Len(currentViewport.instances)
                           THEN 0 ELSE currentViewport.currentIndex + 1
              updated == SetAt(viewports, t.av, [currentViewport EXCEPT !.currentIndex = nextIndex])
              r == handleImageScrollRun(t.cvps, t.cready, t.csync, t.av,
                                        nextIndex - currentViewport.currentIndex, updated) IN
          /\ \E eager \in BOOLEAN : viewports' = IF eager THEN updated ELSE r.vps
          /\ ops' = PutOp(r.op)
          /\ UNCHANGED <<cineMode, timers, cineIntervalRef>>
  /\ Did("tick", t.av, t.id, NoImage)
  /\ UNCHANGED <<nextTimer, viewportsReady, imageLoadingStates, activeViewport,
                 syncEnabled, viewportElements, csShown>>
  /\ UnchangedInit /\ UnchangedDom /\ UnchangedFlags

\* --------------------------------------------------- AdvancedStudyViewer
UnchangedMulti == UNCHANGED <<route, budget, layout, viewports, viewportsReady,
                              imageLoadingStates, activeViewport, syncEnabled,
                              isInitializing, viewportElements, initPc, initIdx,
                              initCount, dom, volVars>>

\* the viewer <div ref={viewerRef}> is rendered unless the component returns its
\* loading or error screen (lines 945-953); a viewer that is rendered again is a
\* new element
svMount(l, e) ==
  IF l \/ e # ""
  THEN viewerRef' = 0 /\ UNCHANGED nextElem
  ELSE IF viewerRef # 0
       THEN UNCHANGED <<viewerRef, nextElem>>
       ELSE viewerRef' = nextElem /\ nextElem' = nextElem + 1

\* the keydown listener is installed again only when one of its dependencies
\* changes (line 934: currentIndex, instances.length, ...)
svKeyListener(newIndex, newLen, newCine) ==
  keyCineMode' = IF newIndex # currentIndex \/ newLen # Len(instances)
                  THEN newCine ELSE keyCineMode

\* the image visible in the viewer
svDisplayed == IF viewerRef \in csEnabled THEN csShown[viewerRef] ELSE NoImage

\* how a cornerstone.loadImage rejection reads to the handlers (lines 321-331,
\* 548-560); the wadouri loader is registered before every load
LoadErrors == {"dicom", "other"}

\* loadStack up to its first await (lines 253-318)
loadStackOp(ins) ==
  MkOp("stack", 0, "", ins, 0, 0, 0, ins[1], FALSE, <<>>, <<>>)

\* ---- loadStudyData (lines 126-145), calling handleSeriesSelect for series[0]
svLoadStudyData ==
  /\ route = "single"
  /\ loading
  /\ \E ok \in BOOLEAN :
       IF ok
       THEN /\ imageLoading' = TRUE
            /\ ops' = [ops EXCEPT ![FreeSlot] =
                         MkOp("svFetch", 0, "A", <<>>, 0, 0, 0, NoImage, FALSE, <<>>, <<>>)]
            /\ error' = ""
            /\ svMount(FALSE, "")
            /\ UNCHANGED lastOp
       ELSE /\ error' = "study"
            /\ svMount(FALSE, "study")
            /\ UNCHANGED lastOp
            /\ UNCHANGED <<imageLoading, ops>>
  /\ loading' = FALSE
  /\ UNCHANGED <<unreadable, events, cineMode, cineIntervalRef, timers, nextTimer, csShown,
                 instances, selectedSeries, currentIndex, imageInfo, isElementEnabled,
                 elementRef, stackRef, keyCineMode>>
  /\ UnchangedMulti

\* ---- the polling effect that enables the element (lines 178-200), followed by
\* the load-stack effect (lines 485-489)
svEnableElement ==
  /\ route = "single"
  /\ viewerRef # 0
  /\ ~isElementEnabled
  /\ FreeSlots # {}
  /\ csShown' = csEnable(csShown, viewerRef)
  /\ elementRef' = viewerRef
  /\ isElementEnabled' = TRUE
  /\ IF selectedSeries # "" /\ Len(instances) > 0
     THEN /\ imageLoading' = TRUE
          /\ stackRef' = [imageIds |-> instances, currentImageIdIndex |-> 0]
          /\ ops' = [ops EXCEPT ![FreeSlot] = loadStackOp(instances)]
     ELSE UNCHANGED <<imageLoading, stackRef, ops>>
  /\ UNCHANGED lastOp
  /\ UNCHANGED <<unreadable, events, loading, error, cineMode, cineIntervalRef, timers,
                 nextTimer, nextElem, instances, selectedSeries, currentIndex, imageInfo,
                 viewerRef, keyCineMode>>
  /\ UnchangedMulti

\* ---- handleSeriesSelect (lines 493-514): a click on a series of the sidebar
\* (line 986), up to the await of line 496
svHandleSeriesSelect(seriesUid) ==
  /\ route = "single"
  /\ ~loading /\ error = ""
  /\ FreeSlots # {}
  /\ Spend("select")
  /\ imageLoading' = TRUE
  /\ ops' = [ops EXCEPT ![FreeSlot] =
               MkOp("svFetch", 0, seriesUid, <<>>, 0, 0, 0, NoImage, FALSE, <<>>, <<>>)]
  /\ Did("svSelect", 0, 0, loadSeriesInstances(seriesUid)[1])
  /\ UNCHANGED <<unreadable, loading, error, cineMode, cineIntervalRef, timers, nextTimer,
                 csShown, nextElem, instances, selectedSeries, currentIndex, imageInfo,
                 isElementEnabled, viewerRef, elementRef, stackRef, keyCineMode>>
  /\ UnchangedMulti

\* the instance list arrives (lines 496-507) or the request fails (lines 508-513);
\* the new instances array runs the load-stack effect (lines 485-489)
svSeriesFetched(k) ==
  /\ route = "single"
  /\ ops[k].kind = "svFetch"
  /\ LET op == ops[k] IN
     \E ok \in LoadOutcomes(SeriesList(op.series)) :
       /\ Settle(SeriesList(op.series), ok)
       /\ IF ok
          THEN LET sortedList == loadSeriesInstances(op.series) IN
               /\ instances' = sortedList
               /\ selectedSeries' = op.series
               /\ currentIndex' = resetIndex(currentIndex)
               /\ svKeyListener(resetIndex(currentIndex), Len(sortedList), cineMode)
               /\ IF Len(sortedList) > 0 /\ isElementEnabled /\ elementRef # 0
                  THEN /\ imageLoading' = TRUE
                       /\ stackRef' = [imageIds |-> sortedList, currentImageIdIndex |-> 0]
                       /\ ops' = [ops EXCEPT ![k] = loadStackOp(sortedList)]
                  ELSE /\ imageLoading' = FALSE
                       /\ ops' = [ops EXCEPT ![k] = NoOp]
                       /\ UNCHANGED stackRef
               /\ UNCHANGED lastOp
          ELSE /\ imageLoading' = FALSE
               /\ ops' = [ops EXCEPT ![k] = NoOp]
               /\ UNCHANGED lastOp
               /\ UNCHANGED <<instances, selectedSeries, currentIndex, stackRef, keyCineMode>>
  /\ UNCHANGED <<events, loading, error, cineMode, cineIntervalRef, timers,
                 nextTimer, csShown, nextElem, imageInfo, isElementEnabled, viewerRef,
                 elementRef>>
  /\ UnchangedMulti

\* cornerstone.displayImage(elementRef.current, image) and updateImageInfo
\* (lines 421-423, 611-613)
svShow(inst) ==
  /\ csShown' = csDisplay(csShown, elementRef, inst)
  /\ imageInfo' = inst

\* the catch and finally blocks of loadStack and loadImageByIndex (lines 460-480,
\* 649-659): the error screen replaces the viewer
svFail(k, e) ==
  /\ error' = e
  /\ svMount(loading, e)
  /\ imageLoading' = FALSE
  /\ ops' = [ops EXCEPT ![k] = NoOp]

\* ---- loadStack: the first image settles (lines 318-423)
loadStack(k) ==
  /\ route = "single"
  /\ ops[k].kind = "stack"
  /\ LET op == ops[k] IN
     \E ok \in LoadOutcomes(op.inst), isDicomParseError \in BOOLEAN :
       /\ Settle(op.inst, ok)
       /\ IF ok
          THEN /\ svShow(op.inst)
               /\ imageLoading' = FALSE
               /\ ops' = [ops EXCEPT ![k] = NoOp]
               /\ UNCHANGED lastOp
               /\ UNCHANGED <<error, viewerRef, nextElem>>
          ELSE IF isDicomParseError /\ Len(op.insts) > 1
               THEN /\ error' = "trying"
                    /\ svMount(loading, "trying")
                    /\ ops' = [ops EXCEPT ![k] =
                                 [op EXCEPT !.kind = "stackNext", !.at = 1, !.inst = op.insts[2]]]
                    /\ UNCHANGED lastOp
                    /\ UNCHANGED <<csShown, imageInfo, imageLoading>>
               ELSE /\ svFail(k, "stack")
                    /\ UNCHANGED lastOp
                    /\ UNCHANGED <<csShown, imageInfo>>
  /\ UNCHANGED <<events, loading, cineMode, cineIntervalRef, timers, nextTimer, instances,
                 selectedSeries, currentIndex, isElementEnabled, elementRef, stackRef,
                 keyCineMode>>
  /\ UnchangedMulti

\* ---- loadStack: a later image tried after a corrupt first one settles
\* (lines 340-392); op.at is the position in imageIds, counted from 0
loadStackNext(k) ==
  /\ route = "single"
  /\ ops[k].kind = "stackNext"
  /\ LET op == ops[k]
         i == op.at IN
     \E ok \in LoadOutcomes(op.inst) :
       /\ Settle(op.inst, ok)
       /\ IF ok
          THEN /\ error' = ""
               /\ svMount(loading, "")
               /\ stackRef' = [imageIds |-> SubSeq(op.insts, i + 1, Len(op.insts)),
                               currentImageIdIndex |-> 0]
               /\ currentIndex' = 0
               /\ svKeyListener(0, Len(instances), cineMode)
               /\ svShow(op.inst)
               /\ imageLoading' = FALSE
               /\ ops' = [ops EXCEPT ![k] = NoOp]
               /\ UNCHANGED lastOp
          ELSE IF i + 1 < Len(op.insts)
               THEN /\ ops' = [ops EXCEPT ![k] = [op EXCEPT !.at = i + 1, !.inst = op.insts[i + 2]]]
                    /\ UNCHANGED lastOp
                    /\ UNCHANGED <<error, viewerRef, nextElem, stackRef, currentIndex,
                                   keyCineMode, csShown, imageInfo, imageLoading>>
               ELSE /\ svFail(k, "stack")
                    /\ UNCHANGED lastOp
                    /\ UNCHANGED <<stackRef, currentIndex, keyCineMode, csShown, imageInfo>>
  /\ UNCHANGED <<events, loading, cineMode, cineIntervalRef, timers, nextTimer, instances,
                 selectedSeries, isElementEnabled, elementRef>>
  /\ UnchangedMulti

\* ---- loadImageByIndex up to its first await (lines 518-546)
loadImageByIndexRuns(index) ==
  elementRef # 0 /\ index >= 0 /\ index < Len(stackRef.imageIds)

loadImageByIndex(index) ==
  IF loadImageByIndexRuns(index)
  THEN /\ imageLoading' = TRUE
       /\ stackRef' = [stackRef EXCEPT !.currentImageIdIndex = index]
       /\ ops' = [ops EXCEPT ![FreeSlot] =
                    MkOp("img", 0, "", <<>>, index, 0, 0, stackRef.imageIds[index + 1],
                         FALSE, <<>>, <<>>)]
  ELSE UNCHANGED <<imageLoading, stackRef, ops>>

\* ---- handlePrevImage / handleNextImage (lines 674-684), from the arrow keys
\* (lines 882-889) or the toolbar buttons
svStep(index, inside) ==
  /\ route = "single"
  /\ FreeSlots # {}
  /\ Spend("scroll")
  /\ IF inside
     THEN /\ loadImageByIndex(index)
          /\ currentIndex' = IF loadImageByIndexRuns(index) THEN index ELSE currentIndex
          /\ svKeyListener(IF loadImageByIndexRuns(index) THEN index ELSE currentIndex,
                           Len(instances), cineMode)
     ELSE UNCHANGED <<imageLoading, stackRef, ops, currentIndex, keyCineMode>>
  /\ UNCHANGED <<unreadable, loading, error, cineMode, cineIntervalRef, timers, nextTimer,
                 csShown, nextElem, instances, selectedSeries, imageInfo, isElementEnabled,
                 viewerRef, elementRef>>
  /\ UnchangedMulti

\* the image a step asks for
svWant(index, inside) ==
  IF inside /\ loadImageByIndexRuns(index) THEN stackRef.imageIds[index + 1] ELSE NoImage

handlePrevImage ==
  /\ svStep(currentIndex - 1, currentIndex > 0)
  /\ Did("prev", 0, -1, svWant(currentIndex - 1, currentIndex > 0))

handleNextImage ==
  /\ svStep(currentIndex + 1, currentIndex < Len(instances) - 1)
  /\ Did("next", 0, 1, svWant(currentIndex + 1, currentIndex < Len(instances) - 1))

\* ---- loadImageByIndex: the requested image settles (lines 546-613, 649-659)
imageLoaded(k) ==
  /\ route = "single"
  /\ ops[k].kind = "img"
  /\ LET op == ops[k]
         index == op.idx IN
     \E ok \in LoadOutcomes(op.inst), isDicomParseError \in BOOLEAN :
       /\ Settle(op.inst, ok)
       /\ IF ok
          THEN /\ svShow(op.inst)
               /\ imageLoading' = FALSE
               /\ ops' = [ops EXCEPT ![k] = NoOp]
               /\ UNCHANGED lastOp
               /\ UNCHANGED <<error, viewerRef, nextElem>>
          ELSE IF isDicomParseError /\ index < Len(stackRef.imageIds) - 1
               THEN /\ ops' = [ops EXCEPT ![k] =
                                 [op EXCEPT !.kind = "imgNext", !.idx = index + 1,
                                            !.inst = stackRef.imageIds[index + 2]]]
                    /\ UNCHANGED lastOp
                    /\ UNCHANGED <<error, viewerRef, nextElem, csShown, imageInfo,
                                   imageLoading>>
               ELSE /\ svFail(k, "image")
                    /\ UNCHANGED lastOp
                    /\ UNCHANGED <<csShown, imageInfo>>
  /\ UNCHANGED <<events, loading, cineMode, cineIntervalRef, timers, nextTimer, instances,
                 selectedSeries, currentIndex, isElementEnabled, elementRef, stackRef,
                 keyCineMode>>
  /\ UnchangedMulti

\* ---- loadImageByIndex: the image after a corrupt one settles (lines 566-581)
imageNextLoaded(k) ==
  /\ route = "single"
  /\ ops[k].kind = "imgNext"
  /\ LET op == ops[k]
         nextIndex == op.idx IN
     \E ok \in LoadOutcomes(op.inst) :
       /\ Settle(op.inst, ok)
       /\ IF ok
          THEN /\ currentIndex' = nextIndex
               /\ stackRef' = [stackRef EXCEPT !.currentImageIdIndex = nextIndex]
               /\ svKeyListener(nextIndex, Len(instances), cineMode)
               /\ svShow(op.inst)
               /\ imageLoading' = FALSE
               /\ ops' = [ops EXCEPT ![k] = NoOp]
               /\ UNCHANGED lastOp
               /\ UNCHANGED <<error, viewerRef, nextElem>>
          ELSE /\ svFail(k, "pair")
               /\ UNCHANGED lastOp
               /\ UNCHANGED <<currentIndex, stackRef, keyCineMode, csShown, imageInfo>>
  /\ UNCHANGED <<events, loading, cineMode, cineIntervalRef, timers, nextTimer, instances,
                 selectedSeries, isElementEnabled, elementRef>>
  /\ UnchangedMulti

\* ---- toggleCineMode (lines 829-856); the toolbar button (lines 1147-1152) calls
\* the handler of the current render, the C key (lines 904-908) the handler the
\* keydown listener captured
svToggleCineMode(viaKey) ==
  /\ route = "single"
  /\ viaKey \/ (~loading /\ error = "" /\ Len(instances) >= 2 /\ isElementEnabled)
  /\ Spend("cine")
  /\ IF (IF viaKey THEN keyCineMode ELSE cineMode)
     THEN /\ IF cineIntervalRef # 0
             THEN /\ timers' = ClearInterval(timers, cineIntervalRef)
                  /\ cineIntervalRef' = 0
             ELSE UNCHANGED <<timers, cineIntervalRef>>
          /\ cineMode' = stopCine(cineMode)
          /\ UNCHANGED nextTimer
     ELSE IF canStartCine(instances)
          THEN /\ cineMode' = TRUE
               /\ timers' = timers \cup {[id |-> nextTimer, len |-> Len(instances)]}
               /\ cineIntervalRef' = nextTimer
               /\ nextTimer' = nextTimer + 1
          ELSE UNCHANGED <<cineMode, timers, cineIntervalRef, nextTimer>>
  /\ Did("svCine", 0, IF viaKey THEN 1 ELSE 0, NoImage)
  /\ UNCHANGED <<unreadable, loading, error, ops, csShown, nextElem, instances,
                 selectedSeries, currentIndex, imageLoading, imageInfo, isElementEnabled,
                 viewerRef, elementRef, stackRef, keyCineMode>>
  /\ UnchangedMulti

\* ---- one firing of a live interval timer (lines 842-852); t.len is the length
\* of the instances array the interval callback captured
svCineTick(t) ==
  /\ route = "single"
  /\ t \in timers
  /\ FreeSlots # {}
  /\ Spend("tick")
  /\ LET prev == currentIndex IN
     IF prev < t.len - 1
     THEN /\ loadImageByIndex(prev + 1)
          /\ currentIndex' = prev + 1
          /\ svKeyListener(prev + 1, Len(instances), cineMode)
          /\ UNCHANGED <<cineMode, timers>>
     ELSE /\ cineMode' = FALSE
          /\ timers' = ClearInterval(timers, cineIntervalRef)
          /\ currentIndex' = 0
          /\ svKeyListener(0, Len(instances), FALSE)
          /\ UNCHANGED <<imageLoading, stackRef, ops>>
  /\ Did("svTick", 0, t.id, NoImage)
  /\ UNCHANGED <<unreadable, loading, error, cineIntervalRef, nextTimer, csShown, nextElem,
                 instances, selectedSeries, imageInfo, isElementEnabled, viewerRef,
                 elementRef>>
  /\ UnchangedMulti

\* ------------------------------------------ VolumeRenderer3D and MPRViewer
Null == [kind |-> "null"]

\* VolumeRenderer3D.js line 180, part_004 line 106
concurrency == 5
\* the fallback for an image without columns or rows (VolumeRenderer3D.js lines 169-170,
\* part_004 lines 100-101)
DefaultSide == 256
\* the values a Uint16Array element holds (line 176)
Uint16Range == 65536

Range(f) == {f[x] : x \in DOMAIN f}

\* the catalogs handed to a volume viewer: instances 1..d in ascending order, in
\* descending order, and with the first two exchanged
Catalogs ==
  UNION {{[k \in 1..d |-> [s |-> "A", n |-> k]],
          [k \in 1..d |-> [s |-> "A", n |-> d + 1 - k]],
          [k \in 1..d |-> [s |-> "A", n |-> IF k = 1 /\ d >= 2 THEN 2
                                           ELSE IF k = 2 THEN 1 ELSE k]]}
         : d \in 1..MaxDepth}

\* sample j (from 0) of the decoded image of an instance: all different, or (a
\* flat image) the position of the instance in the stack at every j; the
\* instance numbers of a catalog are 1..depth
Sample(inst, j) == IF fill = "flat" THEN inst.n - 1 ELSE inst.n * 1000 + j + 1

\* image.getPixelData()
getPixelData(inst) == [j \in 1..sampleCount[inst.n] |-> Sample(inst, j - 1)]

\* a store into a Uint16Array: the value is taken modulo 2^16
ToUint16(v) == v % Uint16Range

\* the copy bound that also copies the samples beyond the slice
copyCountAll(pixelLen, w, h) == pixelLen

\* line 202: Math.min(pixelData.length, width * height)
copyCount(pixelLen, w, h) == Min(pixelLen, w * h)

\* the copy loop (lines 202-204); a store beyond the end of a typed array is
\* ignored
CopySlice(data, offset, pixelData, count) ==
  [x \in 1..Len(data) |->
     IF (x - 1 - offset) \in 0..(count - 1) THEN ToUint16(pixelData[x - offset])
     ELSE data[x]]

\* a batch of one load more than the fan-out
BatchIdxsWide(i, n) == {b \in 0..concurrency : i + b < n}

\* the batchIdx values of the batch that starts at i (lines 182, 109)
BatchIdxs(i, n) == {b \in 0..(concurrency - 1) : i + b < n}

UnchangedViewer == UNCHANGED viewerVars
UnchangedInputs == UNCHANGED <<instanceList, failing, imageSize, sampleCount, fill>>

\* ---- VolumeRenderer3D.loadVolumeData: the first image settles (lines 164-181)
vr3dFirstImageLoaded ==
  /\ route = "volume3d"
  /\ pc = "first"
  /\ IF sortedInstances[1] \in failing
     THEN /\ pc' = "failed"
          /\ UNCHANGED <<width, height, depth, volumeData, batchI, pending>>
     ELSE LET w == IF imageSize.columns = 0 THEN DefaultSide ELSE imageSize.columns
              h == IF imageSize.rows = 0 THEN DefaultSide ELSE imageSize.rows
              d == Len(sortedInstances) IN
          /\ width' = w /\ height' = h /\ depth' = d
          /\ volumeData' = Fill(w * h * d, 0)
          /\ batchI' = 0
          /\ pending' = BatchIdxs(0, d)
          /\ pc' = "batch"
  /\ UNCHANGED <<sortedInstances, loadedCount, batchResults, pixelDataArray, volumeRef,
                 mprVolumeData, sliceIndex>>
  /\ UnchangedInputs /\ UnchangedViewer /\ UNCHANGED sliceResult

\* an offset that counts rows instead of slices
sliceOffsetRows(sliceIndexZ, w, h) == sliceIndexZ * w

\* line 199: offset = sliceIndex * width * height
sliceOffset(sliceIndexZ, w, h) == sliceIndexZ * w * h

\* ---- one load of the running batch settles (lines 184-212)
vr3dInstanceLoaded(batchIdx) ==
  /\ route = "volume3d"
  /\ pc = "batch"
  /\ batchIdx \in pending
  /\ LET instance == sortedInstances[batchI + batchIdx + 1]
         sliceIndexZ == batchI + batchIdx
         offset == sliceOffset(sliceIndexZ, width, height) IN
     IF instance \in failing
     THEN UNCHANGED <<volumeData, loadedCount>>
     ELSE LET pixelData == getPixelData(instance) IN
          /\ volumeData' = CopySlice(volumeData, offset, pixelData,
                                     copyCount(Len(pixelData), width, height))
          /\ loadedCount' = loadedCount + 1
  /\ pending' = pending \ {batchIdx}
  /\ UNCHANGED <<pc, sortedInstances, width, height, depth, batchI, batchResults,
                 pixelDataArray, volumeRef, mprVolumeData, sliceIndex>>
  /\ UnchangedInputs /\ UnchangedViewer /\ UNCHANGED sliceResult

\* ---- Promise.all of the batch resolves: the next batch, or the end (lines
\* 181-183, 214-225)
vr3dBatchSettled ==
  /\ route = "volume3d"
  /\ pc = "batch"
  /\ pending = {}
  /\ IF batchI + concurrency < Len(sortedInstances)
     THEN /\ batchI' = batchI + concurrency
          /\ pending' = BatchIdxs(batchI + concurrency, Len(sortedInstances))
          /\ UNCHANGED <<pc, volumeRef>>
     ELSE /\ volumeRef' = [dimensions |-> [width |-> width, height |-> height, depth |-> depth],
                           data |-> volumeData]
          /\ pc' = "done"
          /\ UNCHANGED <<batchI, pending>>
  /\ UNCHANGED <<sortedInstances, width, height, depth, volumeData, loadedCount,
                 batchResults, pixelDataArray, mprVolumeData, sliceIndex>>
  /\ UnchangedInputs /\ UnchangedViewer /\ UNCHANGED sliceResult

\* ---- MPRViewer.loadVolumeData: the first image settles (part_004 lines 96-106)
mprFirstImageLoaded ==
  /\ route = "mpr"
  /\ pc = "first"
  /\ IF sortedInstances[1] \in failing
     THEN /\ pc' = "failed"
          /\ UNCHANGED <<width, height, depth, batchI, pending, batchResults>>
     ELSE LET d == Len(sortedInstances) IN
          /\ width' = IF imageSize.columns = 0 THEN DefaultSide ELSE imageSize.columns
          /\ height' = IF imageSize.rows = 0 THEN DefaultSide ELSE imageSize.rows
          /\ depth' = d
          /\ batchI' = 0
          /\ pending' = BatchIdxs(0, d)
          /\ batchResults' = [b \in BatchIdxs(0, d) |-> Null]
          /\ pc' = "batch"
  /\ UNCHANGED <<sortedInstances, volumeData, loadedCount, pixelDataArray, volumeRef,
                 mprVolumeData, sliceIndex>>
  /\ UnchangedInputs /\ UnchangedViewer /\ UNCHANGED sliceResult

\* a result stored at the position of its arrival: settled is the number of
\* loads of the batch that settled before it
resultSlotArrival(batchIdx, settled) == settled

\* Promise.all over batch.map (part_004 lines 109-110): the result of the
\* promise at position batchIdx is element batchIdx of batchResults
resultSlot(batchIdx, settled) == batchIdx

\* ---- one load of the running batch settles (part_004 lines 111-134)
mprInstanceLoaded(batchIdx) ==
  /\ route = "mpr"
  /\ pc = "batch"
  /\ batchIdx \in pending
  /\ LET instance == sortedInstances[batchI + batchIdx + 1] IN
     batchResults' = [batchResults EXCEPT
                        ![resultSlot(batchIdx, Cardinality(DOMAIN batchResults \ pending))] =
                        IF instance \in failing THEN Null
                        ELSE [kind |-> "slice", pixelData |-> getPixelData(instance),
                              instance |-> instance]]
  /\ pending' = pending \ {batchIdx}
  /\ UNCHANGED <<pc, sortedInstances, width, height, depth, volumeData, loadedCount, batchI,
                 pixelDataArray, volumeRef, mprVolumeData, sliceIndex>>
  /\ UnchangedInputs /\ UnchangedViewer /\ UNCHANGED sliceResult

\* batchResults.filter(Boolean), in batch order (part_004 line 137)
RECURSIVE FilterBoolean(_, _, _)
FilterBoolean(results, b, n) ==
  IF b >= n THEN <<>>
  ELSE (IF results[b] = Null THEN <<>> ELSE <<results[b]>>) \o FilterBoolean(results, b + 1, n)

\* ---- Promise.all of the batch resolves: the next batch, or the end (part_004
\* lines 108-110, 137-160)
mprBatchSettled ==
  /\ route = "mpr"
  /\ pc = "batch"
  /\ pending = {}
  /\ LET pushed == pixelDataArray \o
                     FilterBoolean(batchResults, 0, Cardinality(DOMAIN batchResults)) IN
     /\ pixelDataArray' = pushed
     /\ IF batchI + concurrency < Len(sortedInstances)
        THEN /\ batchI' = batchI + concurrency
             /\ pending' = BatchIdxs(batchI + concurrency, Len(sortedInstances))
             /\ batchResults' = [b \in BatchIdxs(batchI + concurrency, Len(sortedInstances))
                                   |-> Null]
             /\ UNCHANGED <<pc, mprVolumeData, sliceIndex>>
        ELSE /\ mprVolumeData' = [kind |-> "volume", width |-> width, height |-> height,
                                  depth |-> Len(pushed), slices |-> pushed]
             /\ sliceIndex' = [axial |-> Len(pushed) \div 2, sagittal |-> width \div 2,
                               coronal |-> height \div 2]
             /\ pc' = "done"
             /\ UNCHANGED <<batchI, pending, batchResults>>
  /\ UNCHANGED <<sortedInstances, width, height, depth, volumeData, loadedCount, volumeRef>>
  /\ UnchangedInputs /\ UnchangedViewer /\ UNCHANGED sliceResult

\* ---- MPRViewer.getSlice (part_004 lines 168-246)
ViewTypes == {"axial", "sagittal", "coronal"}

NoSlice == [viewType |-> "none", index |-> 0, result |-> Null]

\* slices[z]: undefined past the end of the array
SliceAt(slices, z) == IF z + 1 \in DOMAIN slices THEN slices[z + 1] ELSE Null

\* the range check that accepts an index equal to the dimension
sliceInRangeInclusive(index, dimension) == ~(index < 0 \/ index > dimension)

\* lines 177, 195, 220: if (index < 0 || index >= dimension) return null, negated
sliceInRange(index, dimension) == ~(index < 0 \/ index >= dimension)

\* the element that takes the sample one position further in the stored slice
axialSampleShifted(pixelData, i) ==
  IF i + 1 < Len(pixelData) THEN ToUint16(pixelData[i + 2]) ELSE 0

\* lines 181-183: element i of sliceData after the copy loop of the axial case; an
\* element the loop does not write keeps the 0 of the new Uint16Array
axialSample(pixelData, i) ==
  IF i < Len(pixelData) THEN ToUint16(pixelData[i + 1]) ELSE 0

\* lines 197-208: element dstIdx of sliceData after the loops of the sagittal
\* case, which write the element dstIdx = z * height + y once, for z < depth,
\* y < height, when srcIdx = y * width + index is inside the slice's pixelData
sagittalSample(vd, index, dstIdx) ==
  LET z == dstIdx \div vd.height
      y == dstIdx % vd.height
      srcIdx == y * vd.width + index
      slice == SliceAt(vd.slices, z) IN
  IF z < vd.depth /\ slice # Null /\ srcIdx < Len(slice.pixelData)
  THEN ToUint16(slice.pixelData[srcIdx + 1]) ELSE 0

\* lines 222-233: element dstIdx of sliceData after the loops of the coronal
\* case, which write the element dstIdx = z * width + x once, for z < depth,
\* x < width, when srcIdx = index * width + x is inside the slice's pixelData
coronalSample(vd, index, dstIdx) ==
  LET z == dstIdx \div vd.width
      x == dstIdx % vd.width
      srcIdx == index * vd.width + x
      slice == SliceAt(vd.slices, z) IN
  IF z < vd.depth /\ slice # Null /\ srcIdx < Len(slice.pixelData)
  THEN ToUint16(slice.pixelData[srcIdx + 1]) ELSE 0

\* slices[0]?.instance
FirstInstance(slices) == IF slices = <<>> THEN NoImage ELSE slices[1].instance

\* sliceData is new Uint16Array(width * height) in every case (line 172)
getSlice(vd, viewType, index) ==
  IF vd = Null THEN Null
  ELSE LET n == vd.width * vd.height IN
    CASE viewType = "axial" ->
           IF ~sliceInRange(index, vd.depth) \/ SliceAt(vd.slices, index) = Null THEN Null
           ELSE [kind |-> "plane",
                 pixelData |-> [i \in 1..n |->
                                  axialSample(SliceAt(vd.slices, index).pixelData, i - 1)],
                 width |-> vd.width, height |-> vd.height,
                 instance |-> SliceAt(vd.slices, index).instance]
      [] viewType = "sagittal" ->
           IF ~sliceInRange(index, vd.width) THEN Null
           ELSE [kind |-> "plane",
                 pixelData |-> [i \in 1..n |-> sagittalSample(vd, index, i - 1)],
                 width |-> vd.depth, height |-> vd.height,
                 instance |-> FirstInstance(vd.slices)]
      [] viewType = "coronal" ->
           IF ~sliceInRange(index, vd.height) THEN Null
           ELSE [kind |-> "plane",
                 pixelData |-> [i \in 1..n |-> coronalSample(vd, index, i - 1)],
                 width |-> vd.width, height |-> vd.depth,
                 instance |-> FirstInstance(vd.slices)]
      [] OTHER -> Null

\* the indices getSlice is applied to: every index of a plane, and one before
\* and after
SliceIndexes == -1..MaxDepth

\* ---- getSlice(viewType, index) on the volume that was built
mprGetSlice(viewType, index) ==
  /\ route = "mpr"
  /\ pc = "done"
  /\ sliceResult' = [viewType |-> viewType, index |-> index,
                      result |-> getSlice(mprVolumeData, viewType, index)]
  /\ UNCHANGED <<pc, sortedInstances, width, height, depth, volumeData, loadedCount, batchI,
                 pending, batchResults, pixelDataArray, volumeRef, mprVolumeData, sliceIndex>>
  /\ UnchangedInputs /\ UnchangedViewer

\* the last index of the axial plane, taken for every plane
maxSlicesAxial(vd, viewType) == vd.depth - 1

\* part_004 lines 293-305, and lines 402-406 of the Viewport component: the
\* last index of a plane
maxSlices(vd, viewType) ==
  CASE viewType = "axial" -> vd.depth - 1
    [] viewType = "sagittal" -> vd.width - 1
    [] OTHER -> vd.height - 1

\* the button of a plane for a direction is enabled (part_004 lines 428, 445)
SliceButtonEnabled(viewType, direction) ==
  IF direction < 0 THEN sliceIndex[viewType] # 0
  ELSE ~(sliceIndex[viewType] >= maxSlices(mprVolumeData, viewType))

\* the loadSlice calls of the effect on sliceIndex (part_004 lines 329-343)
EffectCalls(idx) == {[viewType |-> v, index |-> idx[v]] : v \in ViewTypes}

\* ---- MPRViewer.handleSliceChange (part_004 lines 289-326); sliceResult is the
\* getSlice call of its loadSlice
handleSliceChange(viewType, direction) ==
  /\ route = "mpr"
  /\ pc = "done"
  /\ SliceButtonEnabled(viewType, direction)
  /\ LET currentIndex0 == sliceIndex[viewType]
         top == maxSlices(mprVolumeData, viewType)
         stepped == currentIndex0 + direction
         newIndex == IF stepped < 0 THEN 0 ELSE IF stepped > top THEN top ELSE stepped IN
     /\ sliceIndex' = [sliceIndex EXCEPT ![viewType] = newIndex]
     /\ sliceResult' = [viewType |-> viewType, index |-> newIndex,
                         result |-> getSlice(mprVolumeData, viewType, newIndex)]
  /\ UNCHANGED <<pc, sortedInstances, width, height, depth, volumeData, loadedCount, batchI,
                 pending, batchResults, pixelDataArray, volumeRef, mprVolumeData>>
  /\ UnchangedInputs /\ UnchangedViewer

\* ------------------------------------------------------------------- Init
\* the user events and timer ticks a scenario allows, per kind
Budget(layoutN, selectN, scrollN, syncN, activeN, cineN, tickN, failN) ==
  [layout |-> layoutN, select |-> selectN, scroll |-> scrollN, sync |-> syncN,
   active |-> activeN, cine |-> cineN, tick |-> tickN, fail |-> failN]

MultiScenarios ==
  { Budget(1, 2, 2, 1, 0, 0, 0, 0),      \* two panes, sync, navigation
    Budget(2, 1, 1, 0, 0, 0, 0, 1),      \* layout changes around a selection
    Budget(1, 1, 1, 1, 1, 1, 1, 0),      \* cine
    Budget(0, 1, 0, 0, 0, 1, 3, 0),      \* cine left to run
    Budget(1, 2, 1, 2, 0, 0, 0, 0),      \* sync switched on and off again
    Budget(2, 1, 0, 0, 1, 1, 1, 0) }     \* a pane made active, then fewer panes

InitMulti ==
  /\ loading = TRUE
  /\ error = ""
  /\ layout = "1x1"
  /\ viewports = <<>>
  /\ viewportsReady = <<>>
  /\ imageLoadingStates = <<>>
  /\ activeViewport = 0
  /\ syncEnabled = FALSE
  /\ cineMode = FALSE
  /\ cineIntervalRef = 0
  /\ isInitializing = FALSE
  /\ viewportElements = <<>>
  /\ initPc = "idle"
  /\ initIdx = 0
  /\ initCount = 0
  /\ dom = [i \in Panes |-> 0]
  /\ nextElem = 1
  /\ csShown = <<>>
  /\ timers = {}
  /\ nextTimer = 1
  /\ ops = [k \in 1..MaxOps |-> NoOp]

SingleScenarios ==
  { Budget(0, 1, 2, 0, 0, 0, 0, 0),      \* a second series, navigation
    Budget(0, 0, 2, 0, 0, 0, 0, 1),      \* navigation over an unreadable instance
    Budget(0, 1, 0, 0, 0, 2, 3, 0),      \* cine
    Budget(0, 0, 0, 0, 0, 3, 1, 0) }     \* cine started and stopped

InitSingle ==
  /\ instances = <<>>
  /\ selectedSeries = ""
  /\ currentIndex = 0
  /\ imageLoading = FALSE
  /\ imageInfo = NoImage
  /\ isElementEnabled = FALSE
  /\ viewerRef = 0
  /\ elementRef = 0
  /\ stackRef = [imageIds |-> <<>>, currentImageIdIndex |-> 0]
  /\ keyCineMode = FALSE

\* no volume viewer is open
InitNoVolume ==
  /\ instanceList = <<>>
  /\ failing = {}
  /\ imageSize = [columns |-> 0, rows |-> 0]
  /\ sampleCount = [n \in 1..MaxDepth |-> 0]
  /\ pc = "idle"
  /\ sortedInstances = <<>>
  /\ width = 0 /\ height = 0 /\ depth = 0
  /\ volumeData = <<>>
  /\ loadedCount = 0
  /\ batchI = 0
  /\ pending = {}
  /\ batchResults = <<>>
  /\ pixelDataArray = <<>>
  /\ volumeRef = Null
  /\ mprVolumeData = Null
  /\ sliceIndex = [axial |-> 0, sagittal |-> 0, coronal |-> 0]
  /\ fill = "ramp"
  /\ sliceResult = NoSlice

Init ==
  /\ route \in {"multi", "single"}
  /\ unreadable = {}
  /\ budget \in (IF route = "multi" THEN MultiScenarios ELSE SingleScenarios)
  /\ InitSingle
  /\ InitNoVolume
  /\ events = Budget(0, 0, 0, 0, 0, 0, 0, 0)
  /\ lastOp = [name |-> "init", vp |-> 0, arg |-> 0, want |-> NoImage]
  /\ InitMulti

Next ==
  \/ loadStudyData
  \/ svLoadStudyData
  \/ svEnableElement
  \/ \E s \in SeriesUids : svHandleSeriesSelect(s)
  \/ \E k \in 1..MaxOps : svSeriesFetched(k)
  \/ \E k \in 1..MaxOps : loadStack(k)
  \/ \E k \in 1..MaxOps : loadStackNext(k)
  \/ handlePrevImage
  \/ handleNextImage
  \/ \E k \in 1..MaxOps : imageLoaded(k)
  \/ \E k \in 1..MaxOps : imageNextLoaded(k)
  \/ \E viaKey \in BOOLEAN : svToggleCineMode(viaKey)
  \/ \E t \in timers : svCineTick(t)
  \/ initializeViewportsStep
  \/ \E l \in OfferedLayouts : handleLayoutChange(l)
  \/ \E vp \in Panes, s \in SeriesUids : handleSeriesSelect(vp, s)
  \/ \E k \in 1..MaxOps : selectFetched(k)
  \/ \E k \in 1..MaxOps : selectWaited(k)
  \/ \E k \in 1..MaxOps : selectLoaded(k)
  \/ \E vp \in Panes, d \in {-1, 1} : handleImageScroll(vp, d)
  \/ \E k \in 1..MaxOps : scrollLoaded(k)
  \/ \E k \in 1..MaxOps : syncLoaded(k)
  \/ toggleSync
  \/ \E idx \in Panes : setActiveViewport(idx)
  \/ toggleCineMode
  \/ \E t \in timers : cineTick(t)

Spec == Init /\ [][Next]_vars

\* ---- a volume viewer opened on a catalog: loadVolumeData has sorted the
\* instances and waits for the first image (lines 155-166, part_004 lines 87-98)
InitCatalog ==
  /\ instanceList \in Catalogs
  /\ imageSize \in [columns : 1..MaxSide, rows : 1..MaxSide]
  /\ \E odd \in {0, 2}, delta \in {-1, 1} :
       sampleCount = [n \in 1..MaxDepth |->
                        imageSize.columns * imageSize.rows + (IF n = odd THEN delta ELSE 0)]
  /\ pc = "first"
  /\ sortedInstances = SortByInstanceNumber(instanceList)
  /\ width = 0 /\ height = 0 /\ depth = 0
  /\ volumeData = <<>>
  /\ loadedCount = 0
  /\ batchI = 0
  /\ pending = {}
  /\ batchResults = <<>>
  /\ pixelDataArray = <<>>
  /\ volumeRef = Null
  /\ mprVolumeData = Null
  /\ sliceIndex = [axial |-> 0, sagittal |-> 0, coronal |-> 0]
  /\ sliceResult = NoSlice

\* images with samples that are all different, some of which fail to load
InitLoadVolumeData ==
  /\ InitCatalog
  /\ failing \in {f \in SUBSET Range(instanceList) : Cardinality(f) <= MaxFailing}
  /\ fill = "ramp"

\* flat images, slice i filled with value i, all of which load
InitFlatStack ==
  /\ InitCatalog
  /\ failing = {}
  /\ fill = "flat"

InitViewerClosed ==
  /\ unreadable = {}
  /\ budget = Budget(0, 0, 0, 0, 0, 0, 0, 0)
  /\ events = Budget(0, 0, 0, 0, 0, 0, 0, 0)
  /\ lastOp = [name |-> "init", vp |-> 0, arg |-> 0, want |-> NoImage]
  /\ InitMulti
  /\ InitSingle

InitVolume == route = "volume3d" /\ InitViewerClosed /\ InitLoadVolumeData

NextVolume ==
  \/ vr3dFirstImageLoaded
  \/ \E b \in 0..(concurrency - 1) : vr3dInstanceLoaded(b)
  \/ vr3dBatchSettled

SpecVolume == InitVolume /\ [][NextVolume]_vars

InitMPR == route = "mpr" /\ InitViewerClosed /\ InitLoadVolumeData

NextMPR ==
  \/ mprFirstImageLoaded
  \/ \E b \in 0..(concurrency - 1) : mprInstanceLoaded(b)
  \/ mprBatchSettled
  \/ \E viewType \in ViewTypes, index \in SliceIndexes : mprGetSlice(viewType, index)

SpecMPR == InitMPR /\ [][NextMPR]_vars

InitFlat == route = "mpr" /\ InitViewerClosed /\ InitFlatStack

\* the volume builds of both viewers, without the slicer
InitBuild == route \in {"volume3d", "mpr"} /\ InitViewerClosed /\ InitLoadVolumeData

NextBuild ==
  \/ NextVolume
  \/ mprFirstImageLoaded
  \/ \E b \in 0..(concurrency - 1) : mprInstanceLoaded(b)
  \/ mprBatchSettled

SpecBuild == InitBuild /\ [][NextBuild]_vars

\* ---- the sort of a fetched instance list (MultiViewLayout.js lines 204-207,
\* AdvancedStudyViewer.js lines 496-501, VolumeRenderer3D.js lines 159-162)
\* the instance numbers of the fetched lists
FetchedNumbers == {0, 1, 2, 10}

\* the responses of getSeriesInstances: instance k of the response carries the
\* uid k and any of the instance numbers
FetchedLists ==
  UNION {[1..len -> FetchedNumbers] : len \in 0..MaxFetched}

InitSort ==
  /\ route = "mpr"
  /\ InitViewerClosed
  /\ \E numbers \in FetchedLists :
       instanceList = [k \in 1..Len(numbers) |-> [s |-> "A", n |-> numbers[k], uid |-> k]]
  /\ imageSize = [columns |-> 1, rows |-> 1]
  /\ sampleCount = [n \in 1..MaxDepth |-> 1]
  /\ failing = {}
  /\ fill = "ramp"
  /\ pc = "fetched"
  /\ sortedInstances = <<>>
  /\ width = 0 /\ height = 0 /\ depth = 0
  /\ volumeData = <<>>
  /\ loadedCount = 0
  /\ batchI = 0
  /\ pending = {}
  /\ batchResults = <<>>
  /\ pixelDataArray = <<>>
  /\ volumeRef = Null
  /\ mprVolumeData = Null
  /\ sliceIndex = [axial |-> 0, sagittal |-> 0, coronal |-> 0]
  /\ sliceResult = NoSlice

\* response.data.sort(...) is applied to the fetched list
sortFetched ==
  /\ pc = "fetched"
  /\ sortedInstances' = SortByInstanceNumber(instanceList)
  /\ pc' = "sorted"
  /\ UNCHANGED <<width, height, depth, volumeData, loadedCount, batchI, pending,
                 batchResults, pixelDataArray, volumeRef, mprVolumeData, sliceIndex,
                 sliceResult>>
  /\ UnchangedInputs /\ UnchangedViewer

SpecSort == InitSort /\ [][sortFetched]_vars

\* the MPR viewer with its slice buttons
NextSlices ==
  \/ mprFirstImageLoaded
  \/ \E b \in 0..(concurrency - 1) : mprInstanceLoaded(b)
  \/ mprBatchSettled
  \/ \E viewType \in ViewTypes, direction \in {-1, 1} : handleSliceChange(viewType, direction)

SpecSlices == InitMPR /\ [][NextSlices]_vars

SpecFlat == InitFlat /\ [][NextMPR]_vars

\* ================================================================ properties
NavKinds == {"scrollLoad", "img"}
SelectKinds == {"selFetch", "selWait", "selLoad", "svFetch", "stack", "stackNext"}
NavEvents == {"scroll", "prev", "next"}

InFlight(o, kinds, vp) == {k \in 1..MaxOps : o[k].kind \in kinds /\ o[k].vp = vp}
Idle == \A k \in 1..MaxOps : ops[k].kind = "none"

\* the image visible in pane vp of the mounted component, given the cornerstone
\* state cs, the panes' elements d and the viewer element vr
ShownIn(cs, d, vr, vp) ==
  LET e == IF route = "multi" THEN d[vp] ELSE vr IN
  IF e \in DOMAIN cs THEN cs[e] ELSE NoImage

Shown(vp) == ShownIn(csShown, dom, viewerRef, vp)
ShownNext(vp) == ShownIn(csShown', dom', viewerRef', vp)

\* C1: when the last of the image loads started by navigations on a viewport
\* settles, all of them having succeeded, the viewport shows the image the last
\* navigation asked for
C1_LastNavigationShown ==
  [][\A k \in 1..MaxOps :
       (/\ ops[k].kind \in NavKinds
        /\ ops'[k].kind \notin NavKinds
        /\ InFlight(ops', NavKinds, ops[k].vp) = {}
        /\ lastOp.name \in NavEvents /\ lastOp.vp = ops[k].vp /\ lastOp.want # NoImage
        /\ unreadable' = {})
       => ShownNext(ops[k].vp) = lastOp.want]_vars

\* viewport v (its series, list and index) and the image img it shows are those
\* of the series whose first instance is `first`
HoldsSeries(v, img, first) ==
  /\ v.kind = "vp"
  /\ v.seriesData = first.s
  /\ v.instances = loadSeriesInstances(first.s)
  /\ v.currentIndex = 0
  /\ img = first

\* the viewer's state as a viewport record
svViewport(sel, ins, ci, info) ==
  [kind |-> "vp", seriesData |-> sel, instances |-> ins, currentIndex |-> ci,
   imageInfo |-> info]

ViewportOf(vp) == IF route = "multi" THEN At(viewports, vp)
                  ELSE svViewport(selectedSeries, instances, currentIndex, imageInfo)
ViewportNext(vp) == IF route = "multi" THEN At(viewports', vp)
                    ELSE svViewport(selectedSeries', instances', currentIndex', imageInfo')

\* C2: when the last request of the series selections on a viewport settles, all
\* of them having succeeded, the viewport holds the list of the series selected
\* last, at index 0, and shows its first instance
C2_LastSelectionHeld ==
  [][\A k \in 1..MaxOps :
       (/\ ops[k].kind \in SelectKinds
        /\ ops'[k].kind = "none"
        /\ InFlight(ops', SelectKinds, ops[k].vp) = {}
        /\ lastOp.name \in {"select", "svSelect"} /\ lastOp.vp = ops[k].vp
        /\ route = "single" => isElementEnabled
        /\ unreadable' = {})
       => HoldsSeries(ViewportNext(ops[k].vp), ShownNext(ops[k].vp), lastOp.want)]_vars

IsStep == events'.scroll = events.scroll + 1

\* C3: a manual next/previous step on a stack of length L >= 1 whose index is in
\* [0, L-1] leaves it in [0, L-1]; a previous step at 0 and a next step at L-1
\* change nothing and start no load
C3_StepStaysInRange ==
  [][\A vp \in Panes, direction \in {-1, 1} :
       (/\ IsStep
        /\ lastOp'.vp = vp /\ lastOp'.arg = direction
        /\ ViewportOf(vp).kind = "vp"
        /\ Len(ViewportOf(vp).instances) >= 1
        /\ ViewportOf(vp).currentIndex \in 0..(Len(ViewportOf(vp).instances) - 1))
       => LET L == Len(ViewportOf(vp).instances)
              index == ViewportOf(vp).currentIndex
              atEdge == \/ direction = -1 /\ index = 0
                        \/ direction = 1 /\ index = L - 1 IN
          /\ ViewportNext(vp).currentIndex \in 0..(L - 1)
          /\ atEdge => /\ ViewportNext(vp).currentIndex = index
                       /\ ops' = ops
                       /\ viewports' = viewports]_vars

\* a next step was taken at the last index of a loaded stack and started no load,
\* after the step that had brought the index there and shown the last image
C3_Witness ==
  /\ lastOp.name \in NavEvents /\ lastOp.arg = 1 /\ lastOp.want = NoImage
  /\ events.scroll = 2 /\ events.tick = 0 /\ events.sync = 0
  /\ unreadable = {}
  /\ ViewportOf(lastOp.vp).kind = "vp"
  /\ Len(ViewportOf(lastOp.vp).instances) >= 2
  /\ ViewportOf(lastOp.vp).currentIndex = Len(ViewportOf(lastOp.vp).instances) - 1
  /\ Shown(lastOp.vp) =
       ViewportOf(lastOp.vp).instances[Len(ViewportOf(lastOp.vp).instances)]
  /\ Idle

\* C4: the index of every viewport that holds a list is a valid index of that list
C4_IndexValidAfterReplacement ==
  /\ route = "single" /\ Len(instances) > 0 => currentIndex \in 0..(Len(instances) - 1)
  /\ route = "multi" =>
       \A i \in 1..Len(viewports) :
         HasInstances(viewports[i]) =>
           viewports[i].currentIndex \in 0..(Len(viewports[i].instances) - 1)

\* C5: when the last load triggered by a navigation with sync enabled settles,
\* all loads having succeeded, every other ready pane with a non-empty stack of
\* length L is at min(t, L-1), t being the index of the driving pane, and panes
\* with an empty stack are as they were
C5_SyncFollowsDriver ==
  [][\A k \in 1..MaxOps :
       (/\ route = "multi"
        /\ ops[k].kind = "syncLoad"
        /\ \A j \in 1..MaxOps : ops'[j].kind = "none"
        /\ lastOp.name = "scroll" /\ lastOp.vp = ops[k].vp
        /\ syncEnabled
        /\ initPc = "idle"
        /\ unreadable' = {})
       => \A i \in Panes :
            (i # ops[k].vp /\ i < getViewportCount(layout)) =>
              /\ (AtB(viewportsReady, i) /\ HasInstances(At(viewports', i))) =>
                   At(viewports', i).currentIndex =
                     Min(At(viewports', ops[k].vp).currentIndex,
                         Len(At(viewports', i).instances) - 1)
              /\ ~HasInstances(At(viewports, i)) => At(viewports', i) = At(viewports, i)]_vars

\* C6: at most one cine interval timer is live, and cineIntervalRef refers to the
\* live one
C6_OneLiveCineTimer ==
  /\ Cardinality(timers) <= 1
  /\ \A t \in timers : t.id = cineIntervalRef

\* C7: a layout change to n panes leaves exactly n viewports, each with no series,
\* an empty instance list, index 0 and no image info, not loading and not ready
C7_LayoutChangeResets ==
  [][events'.layout = events.layout + 1 =>
       LET n == getViewportCount(layout') IN
       /\ Len(viewports') = n
       /\ \A i \in 1..n : viewports'[i] = EmptyViewport
       /\ imageLoadingStates' = Fill(n, FALSE)
       /\ viewportsReady' = Fill(n, FALSE)]_vars

\* the layout was changed to two panes while the instance list of a selected
\* series had arrived and its first image was still to be shown
C7_Witness ==
  /\ lastOp.name = "layout"
  /\ \E k \in 1..MaxOps : ops[k].kind \in {"selWait", "selLoad"}
  /\ Len(viewports) = getViewportCount(layout)
  /\ Len(viewports) = 2
  /\ \A i \in 1..Len(viewports) : viewports[i] = EmptyViewport

\* C8: once the study has loaded, the number of viewport slots is the pane count
\* of the current layout, one of 1, 2, 4 and 6
C8_SlotsMatchLayout ==
  (route = "multi" /\ ~loading /\ error = "") =>
    /\ Len(viewports) = getViewportCount(layout)
    /\ Len(viewports) \in {1, 2, 4, 6}

\* ---- volumes
\* the position (from 0) of an instance in the catalog sorted by instance number
CatalogPosition(inst) == Cardinality({x \in Range(instanceList) : x.n < inst.n})

\* the samples a z-slice of w*h samples holds for a loaded instance
ExpectedSlice(inst, w, h) ==
  [j \in 1..(w * h) |-> IF j <= sampleCount[inst.n] THEN Sample(inst, j - 1) ELSE 0]

\* z-slice k (from 0) of a linear voxel buffer
SliceOf(data, k, w, h) == SubSeq(data, k * w * h + 1, (k + 1) * w * h)

\* C9: a finished VolumeRenderer3D build has depth D and the first image's width
\* and height; the z-slice at the catalog position of a failed instance is all
\* zero, that of a loaded instance holds its samples
C9_FailedSliceZero ==
  (route = "volume3d" /\ pc = "done") =>
    LET w == imageSize.columns
        h == imageSize.rows
        D == Len(instanceList) IN
    /\ volumeRef.dimensions = [width |-> w, height |-> h, depth |-> D]
    /\ Len(volumeRef.data) = w * h * D
    /\ \A inst \in Range(instanceList) :
         SliceOf(volumeRef.data, CatalogPosition(inst), w, h) =
           IF inst \in failing THEN Fill(w * h, 0) ELSE ExpectedSlice(inst, w, h)

\* a build of three or more instances finished although an instance other than
\* the first failed, with a loaded instance after the failed one
C9_Witness ==
  /\ route = "volume3d" /\ pc = "done"
  /\ Len(instanceList) >= 3
  /\ \E bad \in failing, good \in Range(instanceList) \ failing :
       /\ CatalogPosition(bad) > 0
       /\ CatalogPosition(good) > CatalogPosition(bad)
       /\ SliceOf(volumeRef.data, CatalogPosition(good), width, height)[1] = Sample(good, 0)

\* C10: a finished MPRViewer build has as many z-slices as the catalog has
\* instances; z-slice k holds the samples of the instance at sorted position k,
\* and is empty when that instance failed
C10_MprSliceAtCatalogPosition ==
  (route = "mpr" /\ pc = "done") =>
    /\ mprVolumeData.depth = Len(instanceList)
    /\ Len(mprVolumeData.slices) = Len(instanceList)
    /\ \A inst \in Range(instanceList) :
         LET slice == mprVolumeData.slices[CatalogPosition(inst) + 1] IN
         IF inst \in failing
         THEN slice = Null \/ \A j \in DOMAIN slice.pixelData : slice.pixelData[j] = 0
         ELSE slice # Null /\ slice.pixelData = getPixelData(inst)

\* C11: a volume build does not abort because one instance fails to load: a build
\* is abandoned only when no instance of the catalog can be loaded
C11_BuildSurvivesFirstFailure ==
  (route \in {"volume3d", "mpr"} /\ pc = "failed") => Range(instanceList) \subseteq failing

\* ---- planes of the volume
\* sample i (from 0) of stored z-slice z; a position the stored slice does not
\* hold reads as the zero of an empty grid
StoredSample(vd, z, i) ==
  LET pixelData == vd.slices[z + 1].pixelData IN
  IF i < Len(pixelData) THEN pixelData[i + 1] ELSE 0

Voxel(vd, x, y, z) == StoredSample(vd, z, y * vd.width + x)

\* C12: for x in [0, width-1], getSlice('sagittal', x) returns depth*height
\* samples, the one for (z, y) being voxel(x, y, z), and reports dimensions
\* that match the buffer
C12_SagittalPlane ==
  (route = "mpr" /\ sliceResult.viewType = "sagittal"
     /\ sliceResult.index \in 0..(mprVolumeData.width - 1)) =>
    LET vd == mprVolumeData
        r == sliceResult.result IN
    /\ r # Null
    /\ Len(r.pixelData) = vd.depth * vd.height
    /\ r.width * r.height = Len(r.pixelData)
    /\ \A z \in 0..(vd.depth - 1), y \in 0..(vd.height - 1) :
         r.pixelData[z * vd.height + y + 1] = Voxel(vd, sliceResult.index, y, z)

\* C13: for y in [0, height-1], getSlice('coronal', y) returns width*depth
\* samples, the one for (z, x) being voxel(x, y, z), and reports dimensions
\* that match the buffer
C13_CoronalPlane ==
  (route = "mpr" /\ sliceResult.viewType = "coronal"
     /\ sliceResult.index \in 0..(mprVolumeData.height - 1)) =>
    LET vd == mprVolumeData
        r == sliceResult.result IN
    /\ r # Null
    /\ Len(r.pixelData) = vd.width * vd.depth
    /\ r.width * r.height = Len(r.pixelData)
    /\ \A z \in 0..(vd.depth - 1), x \in 0..(vd.width - 1) :
         r.pixelData[z * vd.width + x + 1] = Voxel(vd, x, sliceResult.index, z)

\* C14: for an index in [0, depth-1], getSlice('axial', index) returns
\* width*height samples, each the stored slice's sample at the same position,
\* and the call leaves the stored volume as it was
C14_AxialExactCopy ==
  [][(/\ sliceResult' # sliceResult
      /\ sliceResult'.viewType = "axial"
      /\ sliceResult'.index \in 0..(mprVolumeData.depth - 1))
     => LET vd == mprVolumeData
            r == sliceResult'.result IN
        /\ r # Null
        /\ Len(r.pixelData) = vd.width * vd.height
        /\ r.width = vd.width /\ r.height = vd.height
        /\ \A i \in 0..(vd.width * vd.height - 1) :
             r.pixelData[i + 1] = StoredSample(vd, sliceResult'.index, i)
        /\ mprVolumeData' = vd]_vars

\* the axial plane of a slice other than the first was taken from a volume of
\* three slices or more
C14_Witness ==
  /\ route = "mpr" /\ sliceResult.viewType = "axial"
  /\ sliceResult.index >= 1
  /\ mprVolumeData.depth >= 3
  /\ sliceResult.result # Null
  /\ sliceResult.result.pixelData[1] = StoredSample(mprVolumeData, sliceResult.index, 0)
  /\ sliceResult.result.pixelData[1] # 0

\* the dimension a plane's index runs over
PlaneDimension(vd, viewType) ==
  CASE viewType = "axial" -> vd.depth
    [] viewType = "sagittal" -> vd.width
    [] viewType = "coronal" -> vd.height

\* C15: getSlice returns null exactly when the index is below 0 or not below the
\* plane's own dimension
C15_NullExactlyOutOfRange ==
  (route = "mpr" /\ sliceResult.viewType \in ViewTypes) =>
    (sliceResult.result = Null
       <=> sliceResult.index \notin
             0..(PlaneDimension(mprVolumeData, sliceResult.viewType) - 1))

\* a sagittal plane was asked for at index = width, of a volume deeper than it is
\* wide, and null came back
C15_Witness ==
  /\ route = "mpr" /\ sliceResult.viewType = "sagittal"
  /\ mprVolumeData.depth > mprVolumeData.width
  /\ sliceResult.index = mprVolumeData.width
  /\ sliceResult.result = Null

\* C16: for a volume built without failures from flat images, slice i filled with
\* value i, the axial plane i is all i, and the sagittal and coronal planes hold
\* z at every position of row z, for every z in [0, depth-1]
C16_FlatRoundTrip ==
  (/\ route = "mpr" /\ fill = "flat" /\ failing = {}
   /\ sliceResult.viewType \in ViewTypes
   /\ \A inst \in Range(instanceList) :
        sampleCount[inst.n] >= imageSize.columns * imageSize.rows
   /\ sliceResult.index \in 0..(PlaneDimension(mprVolumeData, sliceResult.viewType) - 1))
  => LET vd == mprVolumeData
         r == sliceResult.result
         rowLen == IF sliceResult.viewType = "sagittal" THEN vd.height ELSE vd.width IN
     /\ r # Null
     /\ IF sliceResult.viewType = "axial"
        THEN \A i \in DOMAIN r.pixelData : r.pixelData[i] = sliceResult.index
        ELSE \A z \in 0..(vd.depth - 1), j \in 0..(rowLen - 1) :
               /\ z * rowLen + j + 1 \in DOMAIN r.pixelData
               /\ r.pixelData[z * rowLen + j + 1] = z

\* ---- cine
\* the step is a firing of timer t
IsTickOf(t) == events'.tick = events.tick + 1 /\ lastOp'.arg = t.id

\* no command other than the selection of one series and the start of cine was
\* given
OnlyCineStarted(selects) ==
  /\ events.layout = 0 /\ events.scroll = 0 /\ events.sync = 0 /\ events.active = 0
  /\ events.select = selects /\ events.cine = 1

\* C17: while cine runs on a pane of the multi-view layout with a stack of length
\* L >= 2 and no other command intervenes, a tick moves the pane's index from c to
\* (c+1) mod L and requests the image at the new index
C17_CineTickAdvancesAndWraps ==
  [][\A t \in timers :
       (/\ route = "multi" /\ IsTickOf(t)
        /\ cineMode /\ OnlyCineStarted(1)
        /\ InFlight(ops, SelectKinds, t.av) = {}
        /\ AtB(viewportsReady, t.av) /\ AtB(t.cready, t.av)
        /\ AtN(viewportElements, t.av) # 0
        /\ At(viewports, t.av).kind = "vp"
        /\ Len(At(viewports, t.av).instances) >= 2
        /\ At(viewports, t.av).currentIndex \in 0..(Len(At(viewports, t.av).instances) - 1))
       => LET v == At(viewports, t.av)
              target == (v.currentIndex + 1) % Len(v.instances) IN
          /\ At(viewports', t.av).currentIndex = target
          /\ \E k \in 1..MaxOps :
               /\ ops[k].kind = "none"
               /\ ops'[k].kind = "scrollLoad"
               /\ ops'[k].vp = t.av
               /\ ops'[k].inst = v.instances[target + 1]]_vars

\* C18: in the single-viewport viewer, with cine started once on a stack of
\* length L >= 2 and no other command given, a tick below L-1 advances the index
\* by one and leaves cine running; the tick at L-1 stops cine: cineMode becomes
\* false and no timer is left to fire
C18_SingleCineStopsAtEnd ==
  [][\A t \in timers :
       (/\ route = "single" /\ IsTickOf(t)
        /\ OnlyCineStarted(0)
        /\ unreadable = {}
        /\ Len(instances) >= 2
        /\ currentIndex \in 0..(Len(instances) - 1))
       => IF currentIndex < Len(instances) - 1
          THEN currentIndex' = currentIndex + 1 /\ cineMode' /\ timers' = timers
          ELSE ~cineMode' /\ timers' = {}]_vars

\* cine, started once at index 0, has run through the stack and stopped itself at
\* the tick that followed the last index
C18_Witness ==
  /\ route = "single" /\ lastOp.name = "svTick"
  /\ events.cine = 1 /\ events.select = 0 /\ events.scroll = 0
  /\ Len(instances) >= 3
  /\ events.tick = Len(instances)
  /\ ~cineMode /\ timers = {}

\* C19: a cine command given while cine is running stops it: cineMode becomes
\* false and no timer is left that could fire a tick and change the index
C19_StopLeavesNoTimer ==
  [][(events'.cine = events.cine + 1 /\ cineMode)
       => (~cineMode' /\ timers' = {})]_vars

\* the stack a cine command is aimed at: the instances of the active viewport,
\* empty when that viewport does not exist or holds no stack
CineStack ==
  IF route = "multi"
  THEN LET viewport == At(viewports, activeViewport) IN
       IF viewport.kind = "vp" THEN viewport.instances ELSE <<>>
  ELSE instances

\* C20: a cine command given while cine is off and the target stack has fewer
\* than 2 instances creates no timer, leaves cineMode false and changes no
\* viewport state
C20_StartOnShortStackNoOp ==
  [][(/\ events'.cine = events.cine + 1
      /\ ~cineMode
      /\ Len(CineStack) < 2)
     => (/\ ~cineMode'
         /\ timers' \subseteq timers
         /\ nextTimer' = nextTimer
         /\ viewports' = viewports
         /\ viewportsReady' = viewportsReady
         /\ activeViewport' = activeViewport
         /\ instances' = instances
         /\ currentIndex' = currentIndex
         /\ csShown' = csShown
         /\ ops' = ops)]_vars

\* a cine command has just been given on a loaded stack of one instance and
\* nothing was started
C20_Witness ==
  /\ lastOp.name \in {"cine", "svCine"}
  /\ Len(CineStack) = 1
  /\ ~cineMode /\ timers = {} /\ nextTimer = 1
  /\ ops = [k \in 1..MaxOps |-> NoOp]

\* a cine command whose handler takes the stop branch: the C key of the
\* single-viewport viewer runs the handler its listener captured
StopRuns ==
  /\ events'.cine = events.cine + 1
  /\ IF route = "single" /\ lastOp'.arg = 1 THEN keyCineMode ELSE cineMode

\* C21: a stop that runs while cine is off and no timer is live changes nothing:
\* cineMode stays false, no timer is created, no index changes and no load starts
C21_StopTwiceNoOp ==
  [][(StopRuns /\ ~cineMode /\ timers = {})
       => (/\ ~cineMode'
           /\ timers' = {}
           /\ nextTimer' = nextTimer
           /\ viewports' = viewports
           /\ currentIndex' = currentIndex
           /\ instances' = instances
           /\ csShown' = csShown
           /\ error' = error
           /\ ops' = ops)]_vars

\* cine ran for one tick and was stopped; the C key, whose listener still holds
\* the handler of the render in which cine was on, has then stopped it again
C21_Witness ==
  /\ route = "single"
  /\ lastOp.name = "svCine" /\ lastOp.arg = 1
  /\ keyCineMode
  /\ events.cine = 3 /\ events.tick = 1
  /\ nextTimer = 2
  /\ currentIndex = 1
  /\ ~cineMode /\ timers = {} /\ cineIntervalRef = 0

\* the first instance of a stack that is not in the set bad
FirstLoadable(insts, bad) ==
  insts[CHOOSE i \in 1..Len(insts) :
          insts[i] \notin bad /\ \A j \in 1..(i - 1) : insts[j] \in bad]

\* C22: when the initial load of a stack of two or more instances ends, its first
\* instance having failed and a later one being loadable, the viewer shows the
\* loadable instance of lowest index, no error is set and the loading flag is
\* false
C22_InitialLoadSkipsUnreadable ==
  [][\A k \in 1..MaxOps :
       (/\ route = "single"
        /\ ops[k].kind \in {"stack", "stackNext"}
        /\ ops'[k].kind = "none"
        /\ Len(ops[k].insts) >= 2
        /\ ops[k].insts[1] \in unreadable'
        /\ \E i \in 2..Len(ops[k].insts) : ops[k].insts[i] \notin unreadable')
       => (/\ ShownNext(0) = FirstLoadable(ops[k].insts, unreadable')
           /\ error' = ""
           /\ ~imageLoading')]_vars

\* the step in which handler k gives up on an image load and reports it: the
\* catch blocks of loadImageByIndex (setError and alert) and of the multi-view
\* handleSeriesSelect (alert)
ErrorSurfaced(k) ==
  \/ /\ route = "single"
     /\ ops[k].kind \in {"img", "imgNext"}
     /\ ops'[k].kind = "none"
     /\ error' # "" /\ error' # error
  \/ /\ route = "multi"
     /\ ops[k].kind = "selLoad"
     /\ ops'[k].kind = "none"
     /\ ops[k].inst \in unreadable'

\* the instances from the one whose load failed first to the end of the stack
FailedTail(k) ==
  IF route = "multi" THEN Range(ops[k].insts)
  ELSE LET first == IF ops[k].kind = "img" THEN ops[k].idx ELSE ops[k].idx - 1 IN
       {stackRef.imageIds[i] : i \in (first + 1)..Len(stackRef.imageIds)}

\* C23: a load error is reported for a viewport only when every instance from
\* the failed index to the end of the stack fails to load
C23_ErrorOnlyWhenExhausted ==
  [][\A k \in 1..MaxOps : ErrorSurfaced(k) => FailedTail(k) \subseteq unreadable']_vars

\* the suspended handlers of the multi-view layout
MultiLoadKinds == {"selFetch", "selWait", "selLoad", "scrollLoad", "syncLoad"}

\* the step is an operation on pane v: a series selection, a navigation or a cine
\* tick on v, or the continuation of a handler that was started on v
TargetsPane(v) ==
  \/ /\ events' # events
     /\ lastOp'.name \in {"select", "scroll", "tick"}
     /\ lastOp'.vp = v
  \/ \E k \in 1..MaxOps :
       /\ ops[k].kind \in MultiLoadKinds
       /\ ops[k].vp = v
       /\ ops'[k] # ops[k]

\* pane i (instance list, index, image info, loading flag, ready flag) is the same
\* before and after the step
PaneUntouched(i) ==
  /\ At(viewports', i) = At(viewports, i)
  /\ AtB(imageLoadingStates', i) = AtB(imageLoadingStates, i)
  /\ AtB(viewportsReady', i) = AtB(viewportsReady, i)

\* C24: while sync is disabled, an operation on pane v (selection, navigation,
\* cine tick, or one of its loads settling) leaves every other pane untouched
C24_OtherPanesUntouched ==
  [][\A v \in Panes :
       (route = "multi" /\ ~syncEnabled /\ TargetsPane(v))
       => \A i \in Panes \ {v} : PaneUntouched(i)]_vars

\* reading viewport.instances.length (MultiViewLayout lines 500, 457) throws a
\* TypeError unless viewport is an object that has an instances array
ReadThrows(viewport) == viewport.kind # "vp"

\* a guard that tests the viewport only, not its instances
returnsOnMissing(viewport) == viewport.kind = "hole"

\* the guard of lines 498 and 455: the handler returns, or the loop goes on,
\* before the read
returnsEarly(viewport) == ~HasInstances(viewport)

\* a navigation or sync handler whose closure holds the viewports cvps throws
\* outside its try block when run for pane vi
scrollEscapes(cvps, vi) ==
  LET viewport == At(cvps, vi) IN ~returnsEarly(viewport) /\ ReadThrows(viewport)

LoadingFlag(vp) == IF route = "multi" THEN AtB(imageLoadingStates, vp) ELSE imageLoading

\* the suspended handlers that wait for the instance list or for an image of
\* pane vp: those started on vp, and the sync propagation that loads for vp
LoadsInFlight(vp) ==
  {k \in 1..MaxOps :
     \/ ops[k].kind \in (NavKinds \cup SelectKinds \cup {"imgNext"}) /\ ops[k].vp = vp
     \/ ops[k].kind = "syncLoad" /\ ops[k].at = vp}

\* C26: the loading flag of a viewport is true exactly while a load requested
\* for it is in flight
C26_LoadingIffInFlight ==
  \A vp \in Panes :
    (route = "multi" \/ vp = 0) => (LoadingFlag(vp) <=> LoadsInFlight(vp) # {})

\* the suspended handlers that have set the loading flag of their viewport
FlagSetters == SelectKinds \cup {"img", "imgNext"}

\* C27: whenever a series selection or an image load that has set the loading
\* flag of its viewport ends, by success, by a failed request or image, or
\* because there is nothing to load, the flag of that viewport is false
C27_LoadingResetOnExit ==
  [][\A k \in 1..MaxOps :
       (ops[k].kind \in FlagSetters /\ ops'[k].kind = "none")
       => (IF route = "multi" THEN ~AtB(imageLoadingStates', ops[k].vp)
                              ELSE ~imageLoading')]_vars

\* a series selection on a pane has ended with its first image rejected, and
\* the pane is not loading
C27_Witness ==
  /\ route = "multi"
  /\ lastOp.name = "select" /\ lastOp.want \in unreadable
  /\ At(viewports, lastOp.vp).kind = "vp"
  /\ At(viewports, lastOp.vp).instances # <<>>
  /\ At(viewports, lastOp.vp).imageInfo = NoImage
  /\ Idle
  /\ ~AtB(imageLoadingStates, lastOp.vp)

\* C28: whenever no load is in flight for a viewport, its image info is that of
\* the image displayed in it
C28_InfoOfDisplayedImage ==
  \A vp \in Panes :
    (/\ route = "multi" \/ vp = 0
     /\ route = "multi" => vp < Len(viewports)
     /\ LoadsInFlight(vp) = {})
    => ViewportOf(vp).imageInfo = Shown(vp)

\* C29: the step in which the instance list fetched by a series selection
\* replaces the list of its viewport leaves that viewport with the new list at
\* index 0
C29_ReplacementResetsIndex ==
  [][\A k \in 1..MaxOps :
       (/\ ops[k].kind \in {"selFetch", "svFetch"}
        /\ ops'[k] # ops[k]
        /\ SeriesList(ops[k].series) \notin unreadable')
       => (/\ ViewportNext(ops[k].vp).instances = loadSeriesInstances(ops[k].series)
           /\ ViewportNext(ops[k].vp).currentIndex = 0)]_vars

\* the list of a newly selected series has replaced the list of a viewport that
\* had been navigated away from index 0: the viewport still shows an image of
\* the previous series, and its index is 0
C29_Witness ==
  /\ lastOp.name \in {"select", "svSelect"}
  /\ events.scroll >= 1
  /\ \E k \in 1..MaxOps : ops[k].kind \in {"selWait", "stack"}
  /\ ViewportOf(lastOp.vp).instances = loadSeriesInstances(lastOp.want.s)
  /\ ViewportOf(lastOp.vp).currentIndex = 0
  /\ Shown(lastOp.vp).s \notin {"", lastOp.want.s}
  /\ Shown(lastOp.vp).n >= 2

\* a step that resets the pool of viewports: a layout change, or the study load
\* that ends with the initialisation of the viewports
PoolReset ==
  \/ events'.layout = events.layout + 1
  \/ loading /\ ~loading'

\* C30: the ready flag of a viewport goes from true to false only in a step
\* that resets the pool; the single viewer, which has no pool, never clears its
\* flag
C30_ReadyClearedOnlyByReset ==
  [][/\ \A i \in Panes :
          (AtB(viewportsReady, i) /\ ~AtB(viewportsReady', i)) => PoolReset
     /\ isElementEnabled => isElementEnabled']_vars

\* a layout change has cleared the ready flag of a pane that was ready when a
\* series was selected on it; the selection is still in flight
C30_Witness ==
  /\ lastOp.name = "layout"
  /\ events.layout = 1
  /\ \E k \in 1..MaxOps :
       /\ ops[k].kind \in SelectKinds
       /\ ~AtB(viewportsReady, ops[k].vp)
       /\ ops[k].vp < Len(viewportsReady)

\* C31: the active viewport is a pane of the current layout, and choosing the
\* active viewport changes no viewport's stack, index or flags
C31_ActiveViewportExists ==
  [][/\ (route' = "multi" /\ Rendered') =>
          (activeViewport' >= 0 /\ activeViewport' < getViewportCount(layout'))
     /\ (events'.active = events.active + 1) =>
          (/\ viewports' = viewports
           /\ viewportsReady' = viewportsReady
           /\ imageLoadingStates' = imageLoadingStates)]_vars

\* ---- volume builds and the order in which the loads settle
\* the instances that load, in catalog order
RECURSIVE LoadedInOrder(_)
LoadedInOrder(insts) ==
  IF insts = <<>> THEN <<>>
  ELSE (IF Head(insts) \in failing THEN <<>> ELSE <<Head(insts)>>) \o LoadedInOrder(Tail(insts))

\* the volume a build yields, as a function of the catalog, the image size and
\* the load outcomes alone
VolumeOfOutcomes ==
  LET w == imageSize.columns
      h == imageSize.rows
      sorted == SortByInstanceNumber(instanceList)
      loaded == LoadedInOrder(sorted) IN
  IF route = "volume3d"
  THEN [dimensions |-> [width |-> w, height |-> h, depth |-> Len(sorted)],
        data |-> [x \in 1..(w * h * Len(sorted)) |->
                    LET inst == sorted[((x - 1) \div (w * h)) + 1]
                        j == (x - 1) % (w * h) IN
                    IF inst \in failing \/ j >= sampleCount[inst.n] THEN 0
                    ELSE ToUint16(Sample(inst, j))]]
  ELSE [kind |-> "volume", width |-> w, height |-> h, depth |-> Len(loaded),
        slices |-> [k \in 1..Len(loaded) |->
                      [kind |-> "slice", pixelData |-> getPixelData(loaded[k]),
                       instance |-> loaded[k]]]]

\* the volume the viewer holds
BuiltVolume == IF route = "volume3d" THEN volumeRef ELSE mprVolumeData

\* C32: the volume of a finished build is determined by the catalog and the load
\* outcomes: it is the same for every order in which the loads of a batch settle
C32_BuildIndependentOfOrder ==
  (route \in {"volume3d", "mpr"} /\ pc = "done") => BuiltVolume = VolumeOfOutcomes

\* a build of two batches has finished, one instance of the first batch having
\* failed
C32_Witness ==
  /\ route \in {"volume3d", "mpr"} /\ pc = "done"
  /\ Len(sortedInstances) > concurrency
  /\ batchI = concurrency
  /\ \E k \in 2..concurrency : sortedInstances[k] \in failing
  /\ BuiltVolume # Null

\* the instance loads of the build that have been issued and have not settled
LoadsIssued == IF pc = "first" THEN 1 ELSE Cardinality(pending)

\* C33: at most 5 instance loads of a build are in flight, and a batch is issued
\* only when every load of the previous batch has settled
C33_BoundedFanOut ==
  [][/\ LoadsIssued <= 5
     /\ LoadsIssued' <= 5
     /\ (pending' \ pending # {} \/ batchI' # batchI) => LoadsIssued' = Cardinality(pending')
     /\ (pending' \ pending # {} /\ pc = "batch") => pending = {}
     /\ (batchI' # batchI) => (pending = {} /\ batchI' = batchI + 5)]_vars

\* the second batch of a build is in flight, after the five loads of the first
\* batch have settled
C33_Witness ==
  /\ route \in {"volume3d", "mpr"} /\ pc = "batch"
  /\ Len(sortedInstances) > concurrency
  /\ batchI = concurrency
  /\ pending # {}

\* C34: when a load of the VolumeRenderer3D build settles for catalog position
\* k, the buffer keeps its length, every element that changes lies in z-slice k,
\* and z-slice k holds the first width*height samples of the instance
C34_CopyStaysInSlice ==
  [][(route = "volume3d" /\ pc = "batch" /\ pending' # pending /\ batchI' = batchI)
       => \A b \in pending \ pending' :
            LET k == batchI + b
                inst == sortedInstances[k + 1]
                n == width * height IN
            /\ Len(volumeData') = Len(volumeData)
            /\ Len(volumeData') = n * depth
            /\ \A x \in 1..Len(volumeData) :
                 volumeData'[x] # volumeData[x] => (x - 1 >= k * n /\ x - 1 < (k + 1) * n)
            /\ inst \notin failing
                 => SliceOf(volumeData', k, width, height)
                      = [j \in 1..n |-> IF j <= sampleCount[inst.n]
                                        THEN ToUint16(getPixelData(inst)[j]) ELSE 0]]_vars

\* a build has finished in which an instance with more samples than
\* width*height was loaded and the instance after it failed: the z-slice after
\* it is all zero
C34_Witness ==
  /\ route = "volume3d" /\ pc = "done"
  /\ \E inst \in Range(instanceList) \ failing :
       LET k == CatalogPosition(inst) IN
       /\ sampleCount[inst.n] > width * height
       /\ k + 1 < depth
       /\ sortedInstances[k + 2] \in failing
       /\ SliceOf(volumeRef.data, k, width, height)[width * height]
            = Sample(inst, width * height - 1)
       /\ SliceOf(volumeRef.data, k + 1, width, height) = Fill(width * height, 0)

\* ---- slice navigation of the MPR planes
\* every plane's index is in its range, and so is the index of every call of
\* the slicer
SliceIndexesInRange ==
  /\ \A v \in ViewTypes :
       sliceIndex[v] >= 0 /\ sliceIndex[v] <= PlaneDimension(mprVolumeData, v) - 1
  /\ \A c \in EffectCalls(sliceIndex) :
       c.index >= 0 /\ c.index < PlaneDimension(mprVolumeData, c.viewType)
  /\ sliceResult.viewType \in ViewTypes =>
       (/\ sliceResult.index >= 0
        /\ sliceResult.index < PlaneDimension(mprVolumeData, sliceResult.viewType)
        /\ sliceResult.result # Null)

\* C35: once the volume is loaded, each plane's index stays in its own range, a
\* slice change moves the index of its plane alone, and the slicer is called
\* with indices in range only
C35_PlaneIndexesClamped ==
  [][pc' = "done" =>
       /\ SliceIndexesInRange'
       /\ (pc = "done" /\ sliceIndex' # sliceIndex) =>
            \E v \in ViewTypes :
              /\ \A u \in ViewTypes \ {v} : sliceIndex'[u] = sliceIndex[u]
              /\ sliceResult'.viewType = v
              /\ sliceResult'.index = sliceIndex'[v]]_vars

\* the sagittal index of a grid two columns wide was moved to 0 after the
\* axial index of a deeper grid had been moved to its last slice
C35_Witness ==
  /\ route = "mpr" /\ pc = "done"
  /\ mprVolumeData.width = 2
  /\ mprVolumeData.depth >= 4
  /\ sliceResult.viewType = "sagittal"
  /\ sliceResult.index = 0
  /\ sliceIndex.sagittal = 0
  /\ sliceIndex.axial = mprVolumeData.depth - 1

\* ---- the order of an instance list
\* the position of an instance in the fetched list
FetchedPosition(x) == CHOOSE k \in DOMAIN instanceList : instanceList[k] = x

\* C36: the sorted list is a permutation of the fetched list in ascending order
\* of instance number, instances of equal number keeping their fetched order
C36_StableAscendingSort ==
  pc = "sorted" =>
    /\ Len(sortedInstances) = Len(instanceList)
    /\ \A k \in DOMAIN instanceList :
         Cardinality({i \in DOMAIN sortedInstances : sortedInstances[i] = instanceList[k]}) = 1
    /\ \A i, j \in DOMAIN sortedInstances :
         i < j =>
           \/ sortedInstances[i].n < sortedInstances[j].n
           \/ /\ sortedInstances[i].n = sortedInstances[j].n
              /\ FetchedPosition(sortedInstances[i]) < FetchedPosition(sortedInstances[j])

\* a list fetched as 10, 2, 2 has been sorted: the two instances numbered 2
\* come first, in the order they were fetched, the instance numbered 10 last
C36_Witness ==
  /\ pc = "sorted"
  /\ Len(instanceList) = 3
  /\ instanceList[1].n = 10 /\ instanceList[2].n = 2 /\ instanceList[3].n = 2
  /\ sortedInstances = <<instanceList[2], instanceList[3], instanceList[1]>>

\* C37: as long as no user event has followed a layout change, every viewport
\* holds an empty stack at index 0: no selection or sync propagation that was in
\* flight at the change populates or re-indexes a viewport
C37_StacksEmptyAfterLayout ==
  (route = "multi" /\ lastOp.name = "layout") =>
    \A i \in 1..Len(viewports) :
      viewports[i].kind = "vp" =>
        (viewports[i].instances = <<>> /\ viewports[i].currentIndex = 0)

\* the firing of timer t finds no stack to drive: the viewport the session was
\* started on holds no instances, or is no pane of the layout any more
TickFindsNoStack(t) ==
  /\ route = "multi"
  /\ t \in timers
  /\ IsTickOf(t)
  /\ cineMode
  /\ \/ At(viewports, t.av).kind # "vp"
     \/ At(viewports, t.av).instances = <<>>

\* C39: a tick of a multi-view cine session whose viewport holds no stack, or no
\* longer exists, ends the session: cineMode is false, the timer is cancelled,
\* cineIntervalRef is cleared, and no viewport changes
C39_TickOnEmptyStackEndsCine ==
  [][\A t \in timers :
       TickFindsNoStack(t) =>
         (/\ ~cineMode'
          /\ t \notin timers'
          /\ timers' = {}
          /\ cineIntervalRef' = 0
          /\ viewports' = viewports)]_vars

\* the session was started on the second pane and ended by its first tick after
\* a layout change to a single pane
C39_Witness ==
  /\ route = "multi"
  /\ lastOp.name = "tick" /\ lastOp.vp = 1
  /\ events.cine = 1
  /\ Len(viewports) = 1
  /\ ~cineMode /\ timers = {} /\ cineIntervalRef = 0

\* C38: the ready flags are set by a running initialisation alone, so every
\* viewport of the layout eventually becomes ready only if, whenever no
\* initialisation is running, every pane of the layout is ready
C38_ReadyOnceInitialised ==
  (route = "multi" /\ Rendered /\ initPc = "idle" /\ ~isInitializing) =>
    \A i \in 0..(getViewportCount(layout) - 1) : AtB(viewportsReady, i)

\* C40: when the image load of a navigation fails and nothing else is in
\* flight once the failure has been handled, the index of the viewport
\* designates the image the viewport shows
C40_FailedNavigationConsistent ==
  [][\A k \in 1..MaxOps :
       (/\ ops[k].kind \in (NavKinds \cup {"imgNext"})
        /\ ops[k].inst \in unreadable'
        /\ \A j \in 1..MaxOps : ops'[j].kind = "none")
       => LET v == ViewportNext(ops[k].vp) IN
          /\ HasInstances(v)
          /\ v.currentIndex < Len(v.instances)
          /\ v.instances[v.currentIndex + 1] = ShownNext(ops[k].vp)]_vars

====
